---- MODULE Spec2Model ----
(***************************************************************************)
(* Model of mcp-netutil (src/main.go): the JSON-RPC dispatcher             *)
(* handleRequest and the SSE transport (handleSSE, handleMessages and the  *)
(* background worker each accepted POST starts).                           *)
(*                                                                         *)
(* One SSE connection is one session id; one POST is one slot 1..MaxPosts.  *)
(* Every goroutine is a small program counter: spc for the event-stream    *)
(* handler of a session, wpc for the worker of a POST, hstate for the      *)
(* goroutine that runs handleRequest.                                      *)
(***************************************************************************)
EXTENDS Integers, Sequences, FiniteSets, TLC

\* ---- bounds of the model ----
MaxSessions == 2
MaxPosts == 1
\* the number of messages on the input stream of the stdio transport
MaxInput == 2
\* the number of rows inserted into the record store
MaxRows == 2
\* the number of seconds the clock advances
MaxTicks == 1
\* the number of digits of a timestamp (14 in YYYYMMDDhhmmss)
TsWidth == 2

\* the number of goroutines that may be inside a Record call at once
MaxSavers == 2

\* ---- program constants ----
MsgChanCap == 10
EmptySid == 0
StatusAccepted == 202
StatusBadRequest == 400
StatusNotFound == 404
StatusMethodNotAllowed == 405
CodeTimeout == -32000
CodeMethodNotFound == -32601
CodeParseError == -32700

SessionIds == 1..MaxSessions
Slots == 1..MaxPosts

\* JSON ids: null is the empty tuple, the id a client puts on the POST in
\* slot w is <<w>> (a client gives each of its requests its own id).
NullID == <<>>
IdOf(w) == <<w>>

\* The longest host name validateTarget lets through (traceroute.go:74).
MaxHostLen == 253
\* The number of characters after the prefix of an API key (README.md:804).
KeyBodyLen == 32

\* ---- JSONRPCResponse (main.go:31-41, 70-78) ----
\* tools: the names of ListToolsResult.Tools (empty for every other result).
NoResult == [kind |-> "none", isError |-> FALSE, text |-> "", tools |-> {}]
NoError == [code |-> 0, message |-> ""]
\* the nil *JSONRPCResponse
NilResp == [nil |-> TRUE, id |-> NullID, result |-> NoResult, error |-> NoError]

createSuccessResponse(id, output) ==
    [nil |-> FALSE, id |-> id,
     result |-> [kind |-> "call", isError |-> FALSE, text |-> output, tools |-> {}],
     error |-> NoError]

\* Mutant of createErrorResponse: the handler's failure becomes a JSON-RPC
\* error object.
createErrorResponse_AsRPCError(id, message) ==
    [nil |-> FALSE, id |-> id, result |-> NoResult,
     error |-> [code |-> -32000, message |-> message]]

createErrorResponse(id, message) ==
    [nil |-> FALSE, id |-> id,
     result |-> [kind |-> "call", isError |-> TRUE, text |-> message, tools |-> {}],
     error |-> NoError]

\* Mutant of errorResponse: the error is built without the request id.
errorResponse_NoId(id, code, message) ==
    [nil |-> FALSE, id |-> NullID, result |-> NoResult,
     error |-> [code |-> code, message |-> message]]

errorResponse(id, code, message) ==
    [nil |-> FALSE, id |-> id, result |-> NoResult,
     error |-> [code |-> code, message |-> message]]

\* ---- tools ----
\* Mutant of ToolNames: the catalog also lists a tool no branch serves.
ToolNames_WithPortStatus ==
    {"traceroute", "system_stats", "latency_check", "read_records", "kill_process",
     "port_status"}

\* The names of the tools in the result of tools/list (lines 305-386).
ToolNames == {"traceroute", "system_stats", "latency_check", "read_records", "kill_process"}

\* getStringArg: "" when the key is absent or not a string; the request
\* record already holds that value for each string argument.
getStringArg(args, key) == args[key]

\* A request: method, id, whether params unmarshal into CallToolParams, the
\* tool name and its arguments (pid 0 stands for an absent, zero or
\* non-numeric pid: all of them leave the local pid at 0).
NoArgs == [target |-> "", mode |-> "", tool |-> "", pid |-> 0]
Req(method, id, paramsOK, name, args) ==
    [method |-> method, id |-> id, paramsOK |-> paramsOK, name |-> name, args |-> args]

\* ---- validateTarget (pkg/traceroute/traceroute.go:54-78) ----
\* A target is a string; its characters are SubSeq(s, i, i).
CharAt(s, i) == SubSeq(s, i, i)

\* strings.ContainsAny(s, chars).
ContainsAny(s, chars) == \E i \in 1..Len(s) : CharAt(s, i) \in chars

\* strings.Contains(s, substr).
Contains(s, substr) ==
    \E i \in 1..(Len(s) - Len(substr) + 1) : SubSeq(s, i, i + Len(substr) - 1) = substr

\* The grave accent cannot be written inside a string of this language; the
\* character "^" stands for it, and no target here holds a real "^".
Backquote == "^"

\* The characters of the second argument of ContainsAny on line 64:
\* semicolon, ampersand, bar, grave accent, dollar, less-than, greater-than.
ShellChars == {";", "&", "|", Backquote, "$", "<", ">"}

Digits == {"0", "1", "2", "3", "4", "5", "6", "7", "8", "9"}
DigitValue(d) ==
    CASE d = "0" -> 0 [] d = "1" -> 1 [] d = "2" -> 2 [] d = "3" -> 3 [] d = "4" -> 4
      [] d = "5" -> 5 [] d = "6" -> 6 [] d = "7" -> 7 [] d = "8" -> 8 [] d = "9" -> 9

\* The fields of s between the separators sep.
RECURSIVE Split(_, _)
Split(s, sep) ==
    IF \A i \in 1..Len(s) : CharAt(s, i) # sep THEN <<s>>
    ELSE LET i == CHOOSE k \in 1..Len(s) :
                     /\ CharAt(s, k) = sep
                     /\ \A j \in 1..(k - 1) : CharAt(s, j) # sep
         IN <<SubSeq(s, 1, i - 1)>> \o Split(SubSeq(s, i + 1, Len(s)), sep)

\* The value of a string of digits.
RECURSIVE DecValue(_)
DecValue(f) ==
    IF Len(f) = 0 THEN 0
    ELSE 10 * DecValue(SubSeq(f, 1, Len(f) - 1)) + DigitValue(CharAt(f, Len(f)))

\* One field of a dotted-decimal address: one to three digits, no leading
\* zero, at most 255.
IsDecByte(f) ==
    /\ Len(f) \in 1..3
    /\ \A i \in 1..Len(f) : CharAt(f, i) \in Digits
    /\ (Len(f) > 1) => CharAt(f, 1) # "0"
    /\ DecValue(f) <= 255

\* net.ParseIP(target) != nil (line 69) for the dotted-decimal form; an IPv6
\* literal has at most 45 characters, none of them a shell character, and
\* is not among the targets used here.
ParseIP(s) ==
    LET f == Split(s, ".") IN
    /\ Len(f) = 4
    /\ \A i \in 1..4 : IsDecByte(f[i])

\* Mutant of validateTarget: the characters of the target are not looked at.
validateTarget_NoCharCheck(target) ==
    IF target = "" THEN "target cannot be empty"
    ELSE IF ParseIP(target) THEN "nil"
    ELSE IF Len(target) > MaxHostLen THEN "target too long"
    ELSE "nil"

\* validateTarget(target): "nil", or the text of the error.
validateTarget(target) ==
    IF target = "" THEN "target cannot be empty"
    ELSE IF ContainsAny(target, ShellChars) THEN "invalid characters in target"
    ELSE IF ParseIP(target) THEN "nil"
    ELSE IF Len(target) > MaxHostLen THEN "target too long"
    ELSE "nil"

\* traceroute.Run(ctx, target) (traceroute.go:13-52): the output and the
\* error ("nil" for none); the command is started only for a valid target,
\* and outcome says what it does then.
tracerouteRun(target, outcome) ==
    IF validateTarget(target) # "nil"
    THEN [output |-> "", err |-> "invalid target: " \o validateTarget(target),
          started |-> FALSE]
    ELSE IF outcome = "fail"
    THEN [output |-> "", err |-> "traceroute failed: exit status 1", started |-> TRUE]
    ELSE [output |-> "traceroute output", err |-> "nil", started |-> TRUE]

\* The modes for which latency.Run starts ping; for any other mode it
\* returns a text and no error (pkg/latency, Run).
PingModes == {"quick", "standard"}

\* Lines 396-508: the chain of tests on params.Name; outcome is what the
\* tool's external call does ("ok" or "fail": subprocess, syscall or query
\* error).
runTool(req, outcome) ==
    IF req.name = "system_stats" THEN
         IF outcome = "fail"
         THEN createErrorResponse(req.id, "Failed to get system stats")
         ELSE createSuccessResponse(req.id, "system_stats output")
    ELSE IF req.name = "latency_check" THEN
         IF getStringArg(req.args, "target") = ""
         THEN createErrorResponse(req.id, "Error: Missing target argument")
         ELSE IF getStringArg(req.args, "mode") = ""
         THEN createSuccessResponse(req.id, "Please specify the test mode")
         ELSE IF getStringArg(req.args, "mode") \notin PingModes
         THEN createSuccessResponse(req.id, "Invalid mode")
         ELSE IF outcome = "fail"
         THEN createErrorResponse(req.id, "Latency check failed")
         ELSE createSuccessResponse(req.id, "latency output")
    ELSE IF req.name = "traceroute" THEN
         IF getStringArg(req.args, "target") = ""
         THEN createErrorResponse(req.id, "Error: Missing target argument")
         ELSE LET r == tracerouteRun(getStringArg(req.args, "target"), outcome) IN
              IF r.err # "nil"
              THEN createErrorResponse(req.id,
                       "Traceroute execution failed: " \o r.err \o "\nOutput:\n"
                       \o r.output)
              ELSE createSuccessResponse(req.id, r.output)
    ELSE IF req.name = "read_records" THEN
         IF getStringArg(req.args, "tool") = ""
         THEN createErrorResponse(req.id, "Error: Missing tool argument")
         ELSE IF outcome = "fail"
         THEN createErrorResponse(req.id, "Failed to query records")
         ELSE createSuccessResponse(req.id, "records")
    ELSE IF req.name = "kill_process" THEN
         IF req.args.pid = 0
         THEN createErrorResponse(req.id, "Error: Must provide valid 'pid'")
         ELSE IF outcome = "fail"
         THEN createErrorResponse(req.id, "Failed to kill process")
         ELSE createSuccessResponse(req.id, "Successfully killed process")
    ELSE errorResponse(req.id, CodeMethodNotFound, "Tool not found")

\* Mutant of handleRequest: a method the switch does not know is reported as
\* an invalid request.
handleRequest_UnknownAsInvalidRequest(req, outcome) ==
    CASE req.method = "initialize" ->
           [nil |-> FALSE, id |-> req.id,
            result |-> [kind |-> "initialize", isError |-> FALSE, text |-> "2024-11-05",
                        tools |-> {}],
            error |-> NoError]
      [] req.method = "notifications/initialized" -> NilResp
      [] req.method = "tools/list" ->
           [nil |-> FALSE, id |-> req.id,
            result |-> [kind |-> "tools", isError |-> FALSE, text |-> "", tools |-> ToolNames],
            error |-> NoError]
      [] req.method = "tools/call" ->
           IF ~req.paramsOK THEN errorResponse(req.id, CodeParseError, "Parse error")
           ELSE runTool(req, outcome)
      [] OTHER -> errorResponse(req.id, -32600, "Invalid Request")

\* handleRequest(ctx, req): the switch on req.Method (lines 283-512).
handleRequest(req, outcome) ==
    CASE req.method = "initialize" ->
           [nil |-> FALSE, id |-> req.id,
            result |-> [kind |-> "initialize", isError |-> FALSE, text |-> "2024-11-05",
                        tools |-> {}],
            error |-> NoError]
      [] req.method = "notifications/initialized" -> NilResp
      [] req.method = "tools/list" ->
           [nil |-> FALSE, id |-> req.id,
            result |-> [kind |-> "tools", isError |-> FALSE, text |-> "", tools |-> ToolNames],
            error |-> NoError]
      [] req.method = "tools/call" ->
           IF ~req.paramsOK THEN errorResponse(req.id, CodeParseError, "Parse error")
           ELSE runTool(req, outcome)
      [] OTHER -> errorResponse(req.id, CodeMethodNotFound, "Method not found")

\* The function of a tool package that handleRequest calls for req ("none"
\* when it answers without calling one).
HandlerCalled(req) ==
    IF req.method # "tools/call" \/ ~req.paramsOK THEN "none"
    ELSE IF req.name = "system_stats" THEN "system.GetStats"
    ELSE IF req.name = "latency_check" /\ getStringArg(req.args, "target") # ""
         THEN "latency.Run"
    ELSE IF req.name = "traceroute" /\ getStringArg(req.args, "target") # ""
         THEN "traceroute.Run"
    ELSE IF req.name = "read_records" /\ getStringArg(req.args, "tool") # ""
         THEN "cache.QueryRecords"
    ELSE IF req.name = "kill_process" /\ req.args.pid # 0 THEN "system.KillProcess"
    ELSE "none"

\* The command handleRequest starts as a subprocess for req, "none" when it
\* starts none: traceroute.Run starts traceroute once validateTarget has
\* passed (traceroute.go:15-42); latency.Run starts ping for the modes
\* quick and standard with the target as it came (pkg/latency, Run); the
\* other tools read the system or the store without a subprocess.
Subprocess(req) ==
    IF req.method # "tools/call" \/ ~req.paramsOK THEN "none"
    ELSE IF /\ req.name = "traceroute"
            /\ getStringArg(req.args, "target") # ""
            /\ tracerouteRun(getStringArg(req.args, "target"), "ok").started
    THEN "traceroute"
    ELSE IF /\ req.name = "latency_check"
            /\ getStringArg(req.args, "target") # ""
            /\ getStringArg(req.args, "mode") \in PingModes
    THEN "ping"
    ELSE "none"

\* Whether handleRequest reaches a call that can take long (a subprocess, the
\* 5 s sampling, a query, a signal); every other request is answered by
\* computation alone.
CallsOut(req) ==
    /\ req.method = "tools/call"
    /\ req.paramsOK
    /\ \/ req.name = "system_stats"
       \/ /\ req.name = "traceroute"
          /\ getStringArg(req.args, "target") # ""
          /\ validateTarget(getStringArg(req.args, "target")) = "nil"
       \/ /\ req.name = "latency_check"
          /\ getStringArg(req.args, "target") # ""
          /\ getStringArg(req.args, "mode") \in PingModes
       \/ req.name = "read_records" /\ getStringArg(req.args, "tool") # ""
       \/ req.name = "kill_process" /\ req.args.pid # 0

\* The row handleRequest hands to the record store for req: the branches of
\* system_stats, latency_check and traceroute call cache.Record* with the
\* output just before they return createSuccessResponse (lines 402-405,
\* 434-437, 454-457); no other path records anything.
NoRecord == [table |-> "", target |-> "", mode |-> "", result |-> ""]

\* Mutant of recordCall: the output is handed to cache.Record* before the
\* tool's error is looked at.
recordCall_BeforeErrorCheck(req, outcome) ==
    IF req.method # "tools/call" \/ ~req.paramsOK THEN NoRecord
    ELSE IF req.name = "system_stats"
    THEN [NoRecord EXCEPT !.table = "system_stats_records",
                          !.result = runTool(req, outcome).result.text]
    ELSE IF req.name = "traceroute"
    THEN [NoRecord EXCEPT !.table = "traceroute_records",
                          !.target = getStringArg(req.args, "target"),
                          !.result = runTool(req, outcome).result.text]
    ELSE NoRecord

recordCall(req, outcome) ==
    IF req.method # "tools/call" \/ ~req.paramsOK THEN NoRecord
    ELSE IF runTool(req, outcome).result.isError \/ runTool(req, outcome).error.code # 0
    THEN NoRecord
    ELSE IF req.name = "system_stats"
    THEN [NoRecord EXCEPT !.table = "system_stats_records",
                          !.result = runTool(req, outcome).result.text]
    ELSE IF req.name = "latency_check"
    THEN [table |-> "latency_records", target |-> getStringArg(req.args, "target"),
          mode |-> getStringArg(req.args, "mode"),
          result |-> runTool(req, outcome).result.text]
    ELSE IF req.name = "traceroute"
    THEN [NoRecord EXCEPT !.table = "traceroute_records",
                          !.target = getStringArg(req.args, "target"),
                          !.result = runTool(req, outcome).result.text]
    ELSE NoRecord

\* Mutant of TimeoutResp: the timeout reported as a generic internal error.
TimeoutResp_InternalError(id) == errorResponse(id, -32603, "Internal error")

\* The response the worker builds when the deadline wins (main.go:244).
TimeoutResp(id) == errorResponse(id, CodeTimeout, "Request timed out after 300s")

\* ---- requests a client POSTs in slot w ----
NoReq == Req("", NullID, FALSE, "", NoArgs)
PostRequests(w) ==
    { Req("notifications/initialized", NullID, FALSE, "", NoArgs),
      Req("tools/list", NullID, FALSE, "", NoArgs),
      Req("unknown", IdOf(w), FALSE, "", NoArgs),
      Req("tools/call", IdOf(w), TRUE, "traceroute", [NoArgs EXCEPT !.target = "host"]) }

\* known: whether the session id was in the map when the POST looked it up.
NoPost == [method |-> "", sid |-> EmptySid, valid |-> FALSE, known |-> FALSE,
           status |-> 0, req |-> NoReq]

\* ---- SSE frames written to a session's event stream ----
EndpointFrame(s) == [event |-> "endpoint", url |-> s, resp |-> NilResp]
MessageFrame(resp) == [event |-> "message", url |-> EmptySid, resp |-> resp]

VARIABLES
    sessions,    \* the session map: the set of registered session ids
    spc,         \* position of the handleSSE goroutine of each session
    MsgChan,     \* Session.MsgChan: the buffered responses of each session
    closes,      \* who closed each MsgChan, in order (empty: still open)
    stream,      \* the frames written to each session's event stream
    post,        \* the POST made in each slot and the status it was answered
    wpc,         \* position of the background worker of each slot
    hstate,      \* the goroutine running handleRequest for each slot
    ctx,         \* the worker's context: none, live, expired, canceled
    resultChan,  \* the worker's resultChan (buffer 1)
    wout,        \* the response the worker's select picked
    wbranch,     \* the select case the worker took
    sent,        \* number of completed sends on a MsgChan by each worker
    panicked     \* a goroutine panicked: the process is gone

\* The parts of the program that are looked at on their own. Each is one
\* record, and NotRunning while another part is looked at.
VARIABLES
    disp,        \* the dispatcher: one call of handleRequest at a time
    stdio,       \* the stdio transport (serveStdio)
    cache,       \* the record store (pkg/cache)
    fn,          \* one function called with one input after another
    sm           \* the SessionManager and the SSE server built on it

NotRunning == "not running"

\* The dispatcher.
dpc == disp.pc              \* "ready" (a request is given), "done" (answered)
dreq == disp.req            \* the request handleRequest is called with
dresp == disp.resp          \* what handleRequest returned
dcalled == disp.called      \* the tool function handleRequest called for it
doutcome == disp.outcome    \* what the tool's external call did: "ok" or "fail"
dcommand == disp.command    \* the command it started as a subprocess, or "none"
dlogged == disp.logged      \* whether it logged a failure to record the result

\* The stdio transport.
stdin == stdio.stdin        \* the messages on the input stream, in order
rpos == stdio.rpos          \* how many of them the decoder has consumed
decErr == stdio.decErr      \* the decoder's stored error: "nil", "syntax", ...
stdpc == stdio.pc           \* position of the loop
sreq == stdio.req           \* the request decoded last
sresp == stdio.resp         \* the response handleRequest returned for it
sctx == stdio.ctx           \* the request's context: none, live, expired, canceled
stdout == stdio.stdout      \* the responses encoded on the output stream
stderr == stdio.stderr      \* the input positions a decode error was logged for
dispatched == stdio.dispatched  \* the input positions handleRequest was called for

\* The function called on its own.
fpc == fn.pc                \* "ready" (an input is given), "done" (it returned)
farg == fn.arg              \* the input
fret == fn.ret              \* what it returned

\* The record store.
dbOpen == cache.dbOpen      \* whether DB is set (cache.Init ran)
tables == cache.tables      \* the rows of each table, in insertion order
now == cache.now            \* the clock LocalTimeNow reads
saved == cache.saved        \* the inserts that succeeded: table, id, timestamp, result
inflight == cache.inflight  \* per calling goroutine, the Record call it is inside
qry == cache.qry            \* the QueryRecords call in progress and its result

sseVars == <<sessions, spc, MsgChan, closes, stream>>
workerVars == <<post, wpc, hstate, ctx, resultChan, wout, wbranch, sent>>
serverVars == <<sseVars, workerVars, panicked>>

\* What the SSE server leaves alone.
auxVars == <<disp, stdio, cache, fn, sm>>

vars == <<sessions, spc, MsgChan, closes, stream, post, wpc, hstate, ctx,
          resultChan, wout, wbranch, sent, panicked, auxVars>>

ServerIdle ==
    /\ sessions = {}
    /\ spc = [s \in SessionIds |-> "none"]
    /\ MsgChan = [s \in SessionIds |-> <<>>]
    /\ closes = [s \in SessionIds |-> <<>>]
    /\ stream = [s \in SessionIds |-> <<>>]
    /\ post = [w \in Slots |-> NoPost]
    /\ wpc = [w \in Slots |-> "free"]
    /\ hstate = [w \in Slots |-> "none"]
    /\ ctx = [w \in Slots |-> "none"]
    /\ resultChan = [w \in Slots |-> <<>>]
    /\ wout = [w \in Slots |-> NilResp]
    /\ wbranch = [w \in Slots |-> "none"]
    /\ sent = [w \in Slots |-> 0]
    /\ panicked = FALSE

\* The second the clock shows first: one before the last digit carries.
ClockStart == 9

\* The tables createTables makes (cache.go:41-69).
\* The goroutines that may be inside a Record call at once, and the call of
\* one that is in none.
Savers == 1..MaxSavers
NoSave == [pc |-> "idle", table |-> "", timestamp |-> <<>>]

TableNames == {"latency_records", "traceroute_records", "system_stats_records"}

\* No QueryRecords call yet. Timestamps and time bounds are strings of
\* digits, kept as sequences of digits; "" is the empty sequence.
NoQuery == [called |-> FALSE, tool |-> "", startTime |-> <<>>, endTime |-> <<>>,
            target |-> "", err |-> "", rows |-> <<>>, savedBefore |-> {}]

DispatchIdle == disp = NotRunning
StdioIdle == stdio = NotRunning
CacheIdle == cache = NotRunning
FnIdle == fn = NotRunning
SmIdle == sm = NotRunning

\* The SSE server: no connection, no POST; nothing else runs.
Init == ServerIdle /\ DispatchIdle /\ StdioIdle /\ CacheIdle /\ FnIdle /\ SmIdle

\* ---- handleSSE (main.go:129-187) ----

\* Mutant of SSEConnect: the session is created but not put in the map.
SSEConnect_NotRegistered(s) ==
    /\ ~panicked
    /\ UNCHANGED auxVars
    /\ spc[s] = "none"
    /\ \A t \in SessionIds : t < s => spc[t] # "none"
    /\ spc' = [spc EXCEPT ![s] = "registered"]
    /\ UNCHANGED <<sessions, MsgChan, closes, stream, workerVars, panicked>>

\* Lines 131-146: generateID gives a fresh id (ids are taken in order), the
\* session is created with an empty MsgChan and put in the map.
SSEConnect(s) ==
    /\ ~panicked
    /\ UNCHANGED auxVars
    /\ spc[s] = "none"
    /\ \A t \in SessionIds : t < s => spc[t] # "none"
    /\ sessions' = sessions \cup {s}
    /\ spc' = [spc EXCEPT ![s] = "registered"]
    /\ UNCHANGED <<MsgChan, closes, stream, workerVars, panicked>>

\* Mutant of SSEEndpoint: the return of line 160 leaves the session in the
\* map.
SSEEndpoint_NoCleanup(s, flusherOK) ==
    /\ ~panicked
    /\ UNCHANGED auxVars
    /\ spc[s] = "registered"
    /\ IF flusherOK
       THEN /\ stream' = [stream EXCEPT ![s] = Append(@, EndpointFrame(s))]
            /\ spc' = [spc EXCEPT ![s] = "loop"]
       ELSE /\ spc' = [spc EXCEPT ![s] = "removed"]
            /\ UNCHANGED stream
    /\ UNCHANGED <<sessions, MsgChan, closes, workerVars, panicked>>

\* Lines 157-170: without a Flusher the handler answers 500 and returns, so
\* the deferred cleanup deletes the session (lines 150-152); otherwise it
\* writes the endpoint event and enters the loop.
SSEEndpoint(s, flusherOK) ==
    /\ ~panicked
    /\ UNCHANGED auxVars
    /\ spc[s] = "registered"
    /\ IF flusherOK
       THEN /\ stream' = [stream EXCEPT ![s] = Append(@, EndpointFrame(s))]
            /\ spc' = [spc EXCEPT ![s] = "loop"]
            /\ UNCHANGED sessions
       ELSE /\ sessions' = sessions \ {s}
            /\ spc' = [spc EXCEPT ![s] = "removed"]
            /\ UNCHANGED stream
    /\ UNCHANGED <<MsgChan, closes, workerVars, panicked>>

\* Mutant of SSEWrite: the response enqueued last is written first.
SSEWrite_LastFirst(s) ==
    /\ ~panicked
    /\ UNCHANGED auxVars
    /\ spc[s] = "loop"
    /\ MsgChan[s] # <<>>
    /\ stream' = [stream EXCEPT ![s] =
                    Append(@, MessageFrame(MsgChan[s][Len(MsgChan[s])]))]
    /\ MsgChan' = [MsgChan EXCEPT ![s] = SubSeq(@, 1, Len(@) - 1)]
    /\ UNCHANGED <<sessions, spc, closes, workerVars, panicked>>

\* Lines 175-182: one response is taken from MsgChan and written as a frame
\* (json.Marshal does not fail on a JSONRPCResponse built by handleRequest).
SSEWrite(s) ==
    /\ ~panicked
    /\ UNCHANGED auxVars
    /\ spc[s] = "loop"
    /\ MsgChan[s] # <<>>
    /\ stream' = [stream EXCEPT ![s] = Append(@, MessageFrame(Head(MsgChan[s])))]
    /\ MsgChan' = [MsgChan EXCEPT ![s] = Tail(@)]
    /\ UNCHANGED <<sessions, spc, closes, workerVars, panicked>>

\* Mutant of SSEDisconnect: the cleanup closes MsgChan before it deletes the
\* session from the map.
SSEDisconnect_CloseFirst(s) ==
    /\ ~panicked
    /\ UNCHANGED auxVars
    /\ spc[s] = "loop"
    /\ closes' = [closes EXCEPT ![s] = Append(@, "sse")]
    /\ spc' = [spc EXCEPT ![s] = "removed"]
    /\ UNCHANGED <<sessions, MsgChan, stream, workerVars, panicked>>

\* Lines 183-184 and 150-152: the client is gone, the request context is
\* done, the handler returns and the deferred cleanup deletes the session
\* from the map under the lock.
SSEDisconnect(s) ==
    /\ ~panicked
    /\ UNCHANGED auxVars
    /\ spc[s] = "loop"
    /\ sessions' = sessions \ {s}
    /\ spc' = [spc EXCEPT ![s] = "removed"]
    /\ UNCHANGED <<MsgChan, closes, stream, workerVars, panicked>>

\* Line 153: close(session.MsgChan), after the lock is released.
SSEClose(s) ==
    /\ ~panicked
    /\ UNCHANGED auxVars
    /\ spc[s] = "removed"
    /\ closes' = [closes EXCEPT ![s] = Append(@, "sse")]
    /\ spc' = [spc EXCEPT ![s] = "done"]
    /\ UNCHANGED <<sessions, MsgChan, stream, workerVars, panicked>>

\* ---- handleMessages (main.go:189-248) ----

\* Mutant of handleMessagesStatus: the body is decoded before the session is
\* looked up.
handleMessagesStatus_DecodeFirst(method, sid, valid) ==
    IF method # "POST" THEN StatusMethodNotAllowed
    ELSE IF sid = EmptySid THEN StatusBadRequest
    ELSE IF ~valid THEN StatusBadRequest
    ELSE IF sid \notin sessions THEN StatusNotFound
    ELSE StatusAccepted

\* Lines 190-224: the four checks, in the order of the code.
handleMessagesStatus(method, sid, valid) ==
    IF method # "POST" THEN StatusMethodNotAllowed
    ELSE IF sid = EmptySid THEN StatusBadRequest
    ELSE IF sid \notin sessions THEN StatusNotFound
    ELSE IF ~valid THEN StatusBadRequest
    ELSE StatusAccepted

\* The POST of slot w. When it is accepted the worker goroutine starts: it
\* creates the context with the 300 s deadline, makes resultChan, starts the
\* goroutine that runs handleRequest and waits in the select (lines 227-238).
HandleMessages(w, method, sid, valid, req) ==
    /\ ~panicked
    /\ UNCHANGED auxVars
    /\ wpc[w] = "free"
    /\ \A v \in Slots : v < w => wpc[v] # "free"
    /\ LET st == handleMessagesStatus(method, sid, valid) IN
       /\ post' = [post EXCEPT ![w] =
                     [method |-> method, sid |-> sid, valid |-> valid,
                      known |-> sid \in sessions, status |-> st,
                      req |-> IF st = StatusAccepted THEN req ELSE NoReq]]
       /\ IF st = StatusAccepted
          THEN /\ wpc' = [wpc EXCEPT ![w] = "select"]
               /\ hstate' = [hstate EXCEPT ![w] = "running"]
               /\ ctx' = [ctx EXCEPT ![w] = "live"]
          ELSE /\ wpc' = [wpc EXCEPT ![w] = "rejected"]
               /\ UNCHANGED <<hstate, ctx>>
    /\ UNCHANGED <<sseVars, resultChan, wout, wbranch, sent, panicked>>

\* What the deferred cancel() of line 230 leaves of the context.
cancel(c) == IF c = "live" THEN "canceled" ELSE c

\* Lines 234-236 and 239-242: handleRequest returns and its result goes to
\* resultChan. The worker reaches its select right after it has started the
\* handler and waits there, so the first of the two events (the result, the
\* deadline) decides the case the select takes: a send to resultChan hands
\* the value to the waiting worker (first case), where a nil response ends
\* the worker and any other is to be sent on the session's MsgChan. When
\* the worker has already left the select the value stays in the buffer of
\* resultChan, which nobody reads any more. hstate keeps whether the
\* handler returned before or after the worker left the select.
HandlerReturn(w, outcome) ==
    /\ ~panicked
    /\ UNCHANGED auxVars
    /\ hstate[w] = "running"
    /\ LET resp == handleRequest(post[w].req, outcome) IN
       IF wpc[w] = "select"
       THEN /\ hstate' = [hstate EXCEPT ![w] = "returned"]
            /\ wbranch' = [wbranch EXCEPT ![w] = "result"]
            /\ UNCHANGED resultChan
            /\ IF resp.nil
               THEN /\ wpc' = [wpc EXCEPT ![w] = "done"]
                    /\ ctx' = [ctx EXCEPT ![w] = cancel(@)]
                    /\ UNCHANGED wout
               ELSE /\ wpc' = [wpc EXCEPT ![w] = "send"]
                    /\ wout' = [wout EXCEPT ![w] = resp]
                    /\ UNCHANGED ctx
       ELSE /\ hstate' = [hstate EXCEPT ![w] = "returned_late"]
            /\ resultChan' = [resultChan EXCEPT ![w] = <<resp>>]
            /\ UNCHANGED <<wpc, ctx, wout, wbranch>>
    /\ UNCHANGED <<sseVars, post, sent, panicked>>

\* Lines 229 and 243-245: the 300 s deadline passes while the worker waits
\* in the select for a handler that has not returned: ctx.Done() is closed,
\* the select takes its second case and builds the timeout error. Only a
\* handler that is inside a long call can still be running after 300 s.
\* (Once the worker has left the select the deferred cancel stops the timer,
\* or the expiry is no longer looked at.)
TimerExpire(w) ==
    /\ ~panicked
    /\ UNCHANGED auxVars
    /\ ctx[w] = "live"
    /\ wpc[w] = "select"
    /\ CallsOut(post[w].req)
    /\ ctx' = [ctx EXCEPT ![w] = "expired"]
    /\ wbranch' = [wbranch EXCEPT ![w] = "timeout"]
    /\ wout' = [wout EXCEPT ![w] = TimeoutResp(post[w].req.id)]
    /\ wpc' = [wpc EXCEPT ![w] = "send"]
    /\ UNCHANGED <<sseVars, post, hstate, resultChan, sent, panicked>>

\* Mutant of WorkerSend: the response is sent to every registered session.
WorkerSend_Broadcast(w) ==
    /\ ~panicked
    /\ UNCHANGED auxVars
    /\ wpc[w] = "send"
    /\ MsgChan' = [s \in SessionIds |->
                     IF s \in sessions THEN Append(MsgChan[s], wout[w]) ELSE MsgChan[s]]
    /\ sent' = [sent EXCEPT ![w] = @ + 1]
    /\ wpc' = [wpc EXCEPT ![w] = "done"]
    /\ ctx' = [ctx EXCEPT ![w] = cancel(@)]
    /\ UNCHANGED <<sessions, spc, closes, stream, post, hstate, resultChan, wout,
                   wbranch, panicked>>

\* Mutant of WorkerSend: after the send the worker waits in the select again.
WorkerSend_SelectAgain(w) ==
    /\ ~panicked
    /\ UNCHANGED auxVars
    /\ wpc[w] = "send"
    /\ closes[post[w].sid] = <<>>
    /\ Len(MsgChan[post[w].sid]) < MsgChanCap
    /\ MsgChan' = [MsgChan EXCEPT ![post[w].sid] = Append(@, wout[w])]
    /\ sent' = [sent EXCEPT ![w] = @ + 1]
    /\ wpc' = [wpc EXCEPT ![w] = "select"]
    /\ UNCHANGED <<sessions, spc, closes, stream, post, hstate, ctx, resultChan, wout,
                   wbranch, panicked>>

\* Lines 241 and 245: session.MsgChan <- resp, on the session the POST
\* looked up. A send on a closed channel panics; a send on a full channel
\* waits; afterwards the worker returns and the deferred cancel runs.
WorkerSend(w) ==
    /\ ~panicked
    /\ UNCHANGED auxVars
    /\ wpc[w] = "send"
    /\ LET s == post[w].sid IN
       IF closes[s] # <<>>
       THEN /\ panicked' = TRUE
            /\ wpc' = [wpc EXCEPT ![w] = "panic"]
            /\ UNCHANGED <<MsgChan, sent, ctx>>
       ELSE /\ Len(MsgChan[s]) < MsgChanCap
            /\ MsgChan' = [MsgChan EXCEPT ![s] = Append(@, wout[w])]
            /\ sent' = [sent EXCEPT ![w] = @ + 1]
            /\ wpc' = [wpc EXCEPT ![w] = "done"]
            /\ ctx' = [ctx EXCEPT ![w] = cancel(@)]
            /\ UNCHANGED panicked
    /\ UNCHANGED <<sessions, spc, closes, stream, post, hstate, resultChan, wout, wbranch>>

Next ==
    \/ \E s \in SessionIds : SSEConnect(s)
    \/ \E s \in SessionIds : \E flusherOK \in BOOLEAN : SSEEndpoint(s, flusherOK)
    \/ \E s \in SessionIds : SSEWrite(s)
    \/ \E s \in SessionIds : SSEDisconnect(s)
    \/ \E s \in SessionIds : SSEClose(s)
    \/ \E w \in Slots : \E method \in {"POST", "GET"} :
         \E sid \in {EmptySid} \cup SessionIds : \E valid \in BOOLEAN :
           \E req \in (IF valid THEN PostRequests(w) ELSE {NoReq}) :
             HandleMessages(w, method, sid, valid, req)
    \/ \E w \in Slots : \E outcome \in {"ok", "fail"} : HandlerReturn(w, outcome)
    \/ \E w \in Slots : TimerExpire(w)
    \/ \E w \in Slots : WorkerSend(w)

Spec == Init /\ [][Next]_vars

\* ---- what is on a session's channel and stream ----
Accepted(w) == post[w].status = StatusAccepted

\* The responses written as data frames on the stream of s, in order.
DataFrames(s) == SelectSeq(stream[s], LAMBDA f : f.event = "message")

\* Every response that was enqueued for s: those written and those waiting.
Enqueued(s) == [i \in 1..Len(DataFrames(s)) |-> DataFrames(s)[i].resp] \o MsgChan[s]

CountWithId(s, id) == Cardinality({i \in 1..Len(Enqueued(s)) : Enqueued(s)[i].id = id})

\* C1: a request whose id is absent or null, whatever its method, gets no
\* response from the dispatcher, and no frame is enqueued or written for it.
C1_NotificationNoResponse ==
    /\ \A w \in Slots :
         (Accepted(w) /\ post[w].req.id = NullID) =>
             /\ wout[w] = NilResp
             /\ sent[w] = 0
    /\ \A s \in SessionIds : CountWithId(s, NullID) = 0

C3_DeliveredOrDroppedSilently ==
    \A w \in Slots :
        (Accepted(w) /\ post[w].req.method = "tools/call" /\ post[w].req.id # NullID) =>
            /\ sent[w] <= 1
            /\ wpc[w] # "panic"
            /\ ~panicked

\* C4: once a session is out of the session map no worker sends on its
\* MsgChan: a worker leaves its send (completed or panicking) only while its
\* session is still registered.
C4_NoSendAfterRemoval ==
    [][\A w \in Slots :
          (wpc[w] = "send" /\ wpc'[w] # "send") => post[w].sid \in sessions]_vars

\* C5: the worker of an accepted POST enqueues at most one response: the
\* result or the timeout error, never both, and a result that arrives after
\* the timeout stays in resultChan.
C5_AtMostOneResponse ==
    \A w \in Slots :
        /\ sent[w] <= 1
        /\ (Accepted(w) /\ post[w].req.id # NullID) =>
               CountWithId(post[w].sid, post[w].req.id) <= 1
        /\ (sent[w] = 1) => wbranch[w] \in {"result", "timeout"}
        /\ (wbranch[w] = "timeout" /\ wpc[w] = "done") =>
               CountWithId(post[w].sid, post[w].req.id) =
                   Cardinality({i \in 1..Len(Enqueued(post[w].sid)) :
                                   Enqueued(post[w].sid)[i] = wout[w]})

C5_Witness ==
    \E w \in Slots :
        /\ wbranch[w] = "timeout"
        /\ hstate[w] = "returned_late"
        /\ resultChan[w] # <<>>
        /\ wpc[w] = "done"
        /\ sent[w] = 1

C7_DisconnectCancels ==
    \A w \in Slots :
        (Accepted(w) /\ hstate[w] = "running" /\ post[w].sid \notin sessions) =>
            ctx[w] \in {"expired", "canceled"}

\* C8: a session's MsgChan is closed only after the session is out of the
\* map, only by the event-stream handler, and once.
C8_RemoveBeforeClose ==
    \A s \in SessionIds :
        /\ Len(closes[s]) <= 1
        /\ \A i \in 1..Len(closes[s]) : closes[s][i] = "sse"
        /\ (closes[s] # <<>>) => (s \notin sessions /\ spc[s] = "done")
        /\ (spc[s] = "done") => closes[s] # <<>>

C8_Witness ==
    \E s \in SessionIds :
        /\ closes[s] = <<"sse">>
        /\ stream[s] # <<>>
        /\ s \notin sessions

\* C9: the message sink answers 405 to a request that is not a POST, 400 to
\* a POST without session id, 404 to a POST for a session that is not in the
\* map, 400 to a POST whose body is not valid JSON and 202 only when all four
\* checks pass (each check applies to what passed the ones before it); a
\* rejected POST starts no worker and no handler and enqueues nothing.
C9_MessageSinkStatus ==
    \A w \in Slots :
        (wpc[w] # "free") =>
            LET p == post[w] IN
            /\ (p.method # "POST") => p.status = 405
            /\ (p.method = "POST" /\ p.sid = EmptySid) => p.status = 400
            /\ (p.method = "POST" /\ p.sid # EmptySid /\ ~p.known) => p.status = 404
            /\ (p.method = "POST" /\ p.sid # EmptySid /\ p.known /\ ~p.valid) => p.status = 400
            /\ (p.status = 202) <=>
                   (p.method = "POST" /\ p.sid # EmptySid /\ p.known /\ p.valid)
            /\ (p.status # 202) =>
                   /\ wpc[w] = "rejected"
                   /\ hstate[w] = "none"
                   /\ ctx[w] = "none"
                   /\ resultChan[w] = <<>>
                   /\ wout[w] = NilResp
                   /\ sent[w] = 0

C9_Witness ==
    \E w \in Slots :
        /\ wpc[w] = "rejected"
        /\ post[w].method = "POST"
        /\ post[w].sid \in SessionIds
        /\ post[w].status = 404
        /\ spc[post[w].sid] = "done"

\* C10: the event stream of a connection starts with exactly one endpoint
\* event, which carries the connection's own session id, and only data
\* frames follow it; while the handler streams, the session is registered,
\* so a well-formed POST to that URL is accepted.
C10_EndpointFirst ==
    \A s \in SessionIds :
        /\ (stream[s] # <<>>) =>
              /\ stream[s][1].event = "endpoint"
              /\ stream[s][1].url = s
              /\ \A i \in 2..Len(stream[s]) : stream[s][i].event = "message"
        /\ (spc[s] = "loop") =>
              /\ stream[s] # <<>>
              /\ s \in sessions
              /\ handleMessagesStatus("POST", s, TRUE) = 202

C10_Witness ==
    \E s \in SessionIds :
        /\ spc[s] = "loop"
        /\ Len(stream[s]) >= 2
        /\ \E w \in Slots : Accepted(w) /\ post[w].sid = s


\* ---- the dispatcher on its own ----

\* Names a client may put in tools/call: the catalog, names of tools of
\* other versions of the server, the empty name and an arbitrary one.
CallNames == ToolNames \cup {"port_status", "pkill", "", "no_such_tool"}

CallArgs ==
    { [target |-> t, mode |-> m, tool |-> k, pid |-> p] :
         t \in {"", "host"}, m \in {"", "quick", "fast"}, k \in {"", "latency"},
         p \in {0, 1} }

\* The requests the dispatcher is given: every method of the switch and one
\* it does not know, with and without id.
DispatchRequests ==
    { Req(m, id, FALSE, "", NoArgs) :
         m \in {"initialize", "notifications/initialized", "tools/list", "tools/call",
                "unknown"},
         id \in {NullID, IdOf(1)} }
    \cup
    { Req("tools/call", id, TRUE, n, a) :
         id \in {NullID, IdOf(1)}, n \in CallNames, a \in CallArgs }

DispatchInit ==
    /\ ServerIdle /\ StdioIdle /\ CacheIdle /\ FnIdle /\ SmIdle
    /\ \E req \in DispatchRequests :
          disp = [pc |-> "ready", req |-> req, resp |-> NilResp, called |-> "none",
                  outcome |-> "none", logged |-> FALSE, command |-> "none"]

\* handleRequest(ctx, &req) is called and returns.
Dispatch(outcome) ==
    /\ dpc = "ready"
    /\ disp' = [disp EXCEPT !.resp = handleRequest(dreq, outcome),
                            !.called = HandlerCalled(dreq),
                            !.outcome = outcome,
                            !.command = Subprocess(dreq),
                            !.pc = "done"]
    /\ UNCHANGED <<serverVars, stdio, cache, fn, sm>>

\* The next request of the same process.
DispatchNext(req) ==
    /\ dpc = "done"
    /\ disp' = [pc |-> "ready", req |-> req, resp |-> NilResp, called |-> "none",
                outcome |-> "none", logged |-> FALSE, command |-> "none"]
    /\ UNCHANGED <<serverVars, stdio, cache, fn, sm>>

DispatchNextStep ==
    \/ \E outcome \in {"ok", "fail"} : Dispatch(outcome)
    \/ \E req \in DispatchRequests : DispatchNext(req)

DispatchSpec == DispatchInit /\ [][DispatchNextStep]_vars


\* The catalog a client sees: the tools of the result of tools/list.
ListedTools == handleRequest(Req("tools/list", IdOf(1), FALSE, "", NoArgs), "ok").result.tools

\* C11: the names tools/list returns are the names tools/call serves: a call
\* of a listed name is answered by its branch (a tools/call result, and the
\* tool's function is called when the required argument is there), a call of
\* any other name gets the error "Tool not found" and calls nothing, and
\* every tools/list of the process returns the same names.
C11_CatalogEqualsDispatch ==
    (dpc = "done") =>
        /\ (dreq.method = "tools/list") => dresp.result.tools = ListedTools
        /\ (dreq.method = "tools/call" /\ dreq.paramsOK) =>
              /\ (dreq.name \in ListedTools) <=> (dresp.result.kind = "call")
              /\ (dreq.name \notin ListedTools) <=>
                    (dresp.error = [code |-> -32601, message |-> "Tool not found"])
              /\ (dreq.name \notin ListedTools) => dcalled = "none"
              /\ (/\ dreq.name \in ListedTools
                  /\ dreq.args.target # ""
                  /\ dreq.args.tool # ""
                  /\ dreq.args.pid # 0) => dcalled # "none"

C11_Witness ==
    /\ dpc = "done"
    /\ dreq.method = "tools/call"
    /\ dreq.name = "kill_process"
    /\ dreq.name \in ListedTools
    /\ dcalled = "system.KillProcess"
    /\ dresp.result.kind = "call"

\* C12: for a request with a non-null id, a method the dispatcher does not
\* know is answered with the JSON-RPC error -32601, a tools/call whose
\* params do not parse with -32700, a tools/call of a name that is no tool
\* with -32601, each with the request id and without calling a tool function.
C12_DispatchErrors ==
    (dpc = "done" /\ dreq.id # NullID) =>
        /\ (dreq.method \notin {"initialize", "notifications/initialized", "tools/list",
                                "tools/call"}) =>
              /\ dresp.nil = FALSE
              /\ dresp.error.code = -32601
              /\ dresp.result.kind = "none"
              /\ dresp.id = dreq.id
              /\ dcalled = "none"
        /\ (dreq.method = "tools/call" /\ ~dreq.paramsOK) =>
              /\ dresp.nil = FALSE
              /\ dresp.error.code = -32700
              /\ dresp.result.kind = "none"
              /\ dresp.id = dreq.id
              /\ dcalled = "none"
        /\ (dreq.method = "tools/call" /\ dreq.paramsOK /\ dreq.name \notin ListedTools) =>
              /\ dresp.nil = FALSE
              /\ dresp.error.code = -32601
              /\ dresp.result.kind = "none"
              /\ dresp.id = dreq.id
              /\ dcalled = "none"

C12_Witness ==
    /\ dpc = "done"
    /\ dreq.id # NullID
    /\ dreq.method = "unknown"
    /\ dresp.error.code = -32601
    /\ dcalled = "none"


StdioRequests(i) ==
    { Req("notifications/initialized", NullID, FALSE, "", NoArgs),
      Req("tools/list", IdOf(i), FALSE, "", NoArgs),
      Req("unknown", IdOf(i), FALSE, "", NoArgs),
      Req("tools/call", IdOf(i), TRUE, "traceroute", [NoArgs EXCEPT !.target = "host"]) }

StdioMessages(i) ==
    { [kind |-> "request", req |-> r] : r \in StdioRequests(i) }
    \cup { [kind |-> k, req |-> NoReq] : k \in {"syntax", "type", "truncated"} }

StdioInputs ==
    { in \in UNION { [1..n -> UNION { StdioMessages(i) : i \in 1..MaxInput }] :
                        n \in 0..MaxInput } :
         \A i \in DOMAIN in :
            /\ in[i] \in StdioMessages(i)
            /\ (in[i].kind = "truncated") => i = Len(in) }

\* decoder.Decode(&req) of encoding/json, as line 256 uses it. A Decoder
\* keeps the error of a failed read or scan and returns it from every later
\* call; an error of unmarshalling a complete JSON text is returned once and
\* not kept. The result: the error ("nil" for none), the request, and the
\* decoder afterwards.
Decode ==
    IF decErr # "nil"
    THEN [err |-> decErr, req |-> NoReq, rpos |-> rpos, decErr |-> decErr]
    ELSE IF rpos = Len(stdin)
    THEN [err |-> "EOF", req |-> NoReq, rpos |-> rpos, decErr |-> "EOF"]
    ELSE LET m == stdin[rpos + 1] IN
         CASE m.kind = "syntax" ->
                [err |-> "syntax", req |-> NoReq, rpos |-> rpos, decErr |-> "syntax"]
           [] m.kind = "truncated" ->
                [err |-> "unexpected EOF", req |-> NoReq, rpos |-> rpos,
                 decErr |-> "unexpected EOF"]
           [] m.kind = "type" ->
                [err |-> "type", req |-> NoReq, rpos |-> rpos + 1, decErr |-> "nil"]
           [] OTHER ->
                [err |-> "nil", req |-> m.req, rpos |-> rpos + 1, decErr |-> "nil"]

StdioInit ==
    /\ ServerIdle /\ DispatchIdle /\ CacheIdle /\ FnIdle /\ SmIdle
    /\ \E input \in StdioInputs :
          stdio = [stdin |-> input, rpos |-> 0, decErr |-> "nil", pc |-> "decode",
                   req |-> NoReq, resp |-> NilResp, ctx |-> "none", stdout |-> <<>>,
                   stderr |-> {}, dispatched |-> <<>>]

\* Lines 255-258 and 264: Decode; io.EOF ends the loop, any other error is
\* to be logged, a request gets its context with the 300 s deadline.
StdioDecode ==
    /\ stdpc = "decode"
    /\ LET d == Decode
           read == [stdio EXCEPT !.rpos = d.rpos, !.decErr = d.decErr] IN
       IF d.err = "EOF"
       THEN stdio' = [read EXCEPT !.pc = "exit"]
       ELSE IF d.err # "nil"
       THEN stdio' = [read EXCEPT !.pc = "log"]
       ELSE stdio' = [read EXCEPT !.pc = "handle", !.req = d.req, !.ctx = "live"]
    /\ UNCHANGED <<serverVars, disp, cache, fn, sm>>

\* Lines 260-261: log.Printf to the error stream, then continue.
StdioLogError ==
    /\ stdpc = "log"
    /\ stdio' = [stdio EXCEPT !.stderr = stderr \cup {rpos + 1}, !.pc = "decode"]
    /\ UNCHANGED <<serverVars, disp, cache, fn, sm>>

\* Lines 265-266: resp := handleRequest(ctx, &req), then cancel(). The loop
\* waits for the call. When the deadline passes during a long call (expires)
\* the context is done: traceroute's subprocess is killed and Run returns an
\* error; the call returns what handleRequest makes of the tool's outcome.
StdioHandle(outcome, expires) ==
    /\ stdpc = "handle"
    /\ expires => CallsOut(sreq)
    /\ (expires /\ sreq.name = "traceroute") => outcome = "fail"
    /\ stdio' = [stdio EXCEPT !.resp = handleRequest(sreq, outcome),
                              !.ctx = IF expires THEN "expired" ELSE cancel(sctx),
                              !.dispatched = Append(dispatched, rpos),
                              !.pc = "encode"]
    /\ UNCHANGED <<serverVars, disp, cache, fn, sm>>

\* Mutant of StdioEncode: the response is not written.
StdioEncode_Dropped ==
    /\ stdpc = "encode"
    /\ stdio' = [stdio EXCEPT !.pc = "decode"]
    /\ UNCHANGED <<serverVars, disp, cache, fn, sm>>

\* Lines 267-271: a response that is not nil is encoded on the output
\* stream. Each entry keeps the input position it answers and whether the
\* deadline of that request had passed.
StdioEncode ==
    /\ stdpc = "encode"
    /\ stdio' = [stdio EXCEPT
                     !.stdout = IF sresp.nil THEN stdout
                                ELSE Append(stdout, [pos |-> rpos, resp |-> sresp,
                                                     expired |-> (sctx = "expired")]),
                     !.pc = "decode"]
    /\ UNCHANGED <<serverVars, disp, cache, fn, sm>>

StdioNext ==
    \/ StdioDecode
    \/ StdioLogError
    \/ \E outcome \in {"ok", "fail"} : \E expires \in BOOLEAN : StdioHandle(outcome, expires)
    \/ StdioEncode

StdioSpec == StdioInit /\ [][StdioNext]_vars

\* serveStdio runs on the main goroutine, which is always scheduled, and
\* every call it makes returns.
StdioFairSpec == StdioSpec /\ WF_vars(StdioNext)


\* The input positions answered on the output stream.
Answered == { stdout[j].pos : j \in DOMAIN stdout }

Dispatched == { dispatched[k] : k \in DOMAIN dispatched }

\* Whether the request at input position i is one handleRequest answers.
WantsResponse(i) ==
    /\ stdin[i].kind = "request"
    /\ stdin[i].req.method # "notifications/initialized"

\* C15: after a malformed message on the input stream the stdio loop goes
\* on: nothing is written for the malformed message, and every well-formed
\* request of the input, also one that follows a malformed message, is
\* eventually dispatched and, when it has a response, answered.
C15_MalformedSkipped ==
    <>(\A i \in DOMAIN stdin :
          /\ (stdin[i].kind = "request") => i \in Dispatched
          /\ WantsResponse(i) => i \in Answered
          /\ (stdin[i].kind # "request") => i \notin Answered)

C17_StdioTerminates == <>(stdpc = "exit")

\* C18: on the stdio transport a request whose 300 s deadline has passed is
\* answered on the output stream with the JSON-RPC error -32000 "Request
\* timed out after 300s" and the id of the request.
C18_StdioTimeoutError ==
    /\ (stdpc = "encode" /\ sctx = "expired") =>
          /\ sresp.nil = FALSE
          /\ sresp.error = [code |-> -32000, message |-> "Request timed out after 300s"]
          /\ sresp.id = sreq.id
    /\ \A j \in DOMAIN stdout :
          stdout[j].expired =>
              /\ stdout[j].resp.error =
                     [code |-> -32000, message |-> "Request timed out after 300s"]
              /\ stdout[j].resp.result.kind = "none"


\* ---- the record store: pkg/cache (cache.go) ----

\* time.Now().Local().Format("20060102150405"): the digits of the second,
\* most significant first, always TsWidth of them.
RECURSIVE Pow10(_)
Pow10(n) == IF n = 0 THEN 1 ELSE 10 * Pow10(n - 1)

Format(t) == [i \in 1..TsWidth |-> (t \div Pow10(TsWidth - i)) % 10]

LocalTimeNow == Format(now)

\* The order of TEXT values in SQLite: byte by byte, a proper prefix first.
LexLess(a, b) ==
    \/ \E k \in 1..Len(a) :
          /\ k <= Len(b)
          /\ a[k] < b[k]
          /\ \A j \in 1..(k - 1) : a[j] = b[j]
    \/ /\ Len(a) < Len(b)
       /\ \A j \in 1..Len(a) : a[j] = b[j]

LexLE(a, b) == a = b \/ LexLess(a, b)

Targets == {"a"}
Outputs == {"o1", "o2"}

TotalRows == Len(tables["latency_records"]) + Len(tables["traceroute_records"])
             + Len(tables["system_stats_records"])

\* DB.Exec("INSERT INTO ..."): the row gets the next id of its table
\* (AUTOINCREMENT, nothing is ever deleted) and is remembered as saved.
Inserted(table, row) ==
    [cache EXCEPT
        !.tables[table] = Append(@, [row EXCEPT !.id = Len(tables[table]) + 1]),
        !.saved = saved \cup {[table |-> table, id |-> Len(tables[table]) + 1,
                               timestamp |-> row.timestamp, result |-> row.result]}]

Insert(table, row) == cache' = Inserted(table, row)

\* What a call into the record store leaves alone.
cacheFrame == <<serverVars, disp, stdio, fn, sm>>

\* RecordLatency (lines 72-78): nil without a DB; otherwise the INSERT, which
\* succeeds or fails (execOK). The caller's own state is the caller's to set.
RecordLatency(target, mode, result, execOK) ==
    /\ TotalRows < MaxRows
    /\ IF dbOpen /\ execOK
       THEN Insert("latency_records",
                   [id |-> 0, timestamp |-> LocalTimeNow, target |-> target,
                    mode |-> mode, result |-> result])
       ELSE UNCHANGED cache

\* RecordTraceroute (lines 81-87).
RecordTraceroute(target, result, execOK) ==
    /\ TotalRows < MaxRows
    /\ IF dbOpen /\ execOK
       THEN Insert("traceroute_records",
                   [id |-> 0, timestamp |-> LocalTimeNow, target |-> target,
                    result |-> result])
       ELSE UNCHANGED cache

\* RecordSystemStats (lines 90-96).
RecordSystemStats(result, execOK) ==
    /\ TotalRows < MaxRows
    /\ IF dbOpen /\ execOK
       THEN Insert("system_stats_records",
                   [id |-> 0, timestamp |-> LocalTimeNow, result |-> result])
       ELSE UNCHANGED cache

\* The switch of lines 104-114: the table of a tool name, "" for any other.
TableOf(tool) ==
    CASE tool = "latency" -> "latency_records"
      [] tool = "traceroute" -> "traceroute_records"
      [] tool = "system_stats" -> "system_stats_records"
      [] OTHER -> ""

\* Mutant of RowMatches: the start of the interval is excluded.
RowMatches_StartExclusive(row, tool, startTime, endTime, target) ==
    /\ (startTime # <<>>) => LexLess(startTime, row.timestamp)
    /\ (endTime # <<>>) => LexLE(row.timestamp, endTime)
    /\ (target # "" /\ tool # "system_stats") => row.target = target

\* The WHERE clause of lines 116-130: timestamp >= startTime and
\* timestamp <= endTime, each only when given; target LIKE %target% (the
\* targets here are single letters, which match when they are equal).
RowMatches(row, tool, startTime, endTime, target) ==
    /\ (startTime # <<>>) => LexLE(startTime, row.timestamp)
    /\ (endTime # <<>>) => LexLE(row.timestamp, endTime)
    /\ (target # "" /\ tool # "system_stats") => row.target = target

\* ORDER BY timestamp DESC: the orders of the set of rows S in which no row
\* comes before one with a greater timestamp (rows with equal timestamps
\* come in any order).
OrderedDesc(S) ==
    { q \in [1..Cardinality(S) -> S] :
         /\ \A i, j \in DOMAIN q : i # j => q[i] # q[j]
         /\ \A i, j \in DOMAIN q : i < j => ~LexLess(q[i].timestamp, q[j].timestamp) }

\* The times a client asks for: none, the first two seconds of the clock,
\* and a shorter string of digits.
QueryTimes == {<<>>, <<1>>, Format(ClockStart), Format(ClockStart + 1)}

\* QueryRecords (lines 99-171), called by the read_records branch of
\* handleRequest, which holds one result at a time.
QueryRecords(tool, startTime, endTime, target) ==
    /\ ~qry.called
    /\ LET q == [called |-> TRUE, tool |-> tool, startTime |-> startTime,
                 endTime |-> endTime, target |-> target, err |-> "", rows |-> <<>>,
                 savedBefore |-> saved] IN
       IF ~dbOpen
       THEN cache' = [cache EXCEPT !.qry = [q EXCEPT !.err = "database not initialized"]]
       ELSE IF TableOf(tool) = ""
       THEN cache' = [cache EXCEPT !.qry = [q EXCEPT !.err = "unknown tool"]]
       ELSE LET T == tables[TableOf(tool)]
                S == { T[i] : i \in { k \in DOMAIN T :
                                         RowMatches(T[k], tool, startTime, endTime, target) } }
            IN \E rows \in OrderedDesc(S) :
                  cache' = [cache EXCEPT !.qry = [q EXCEPT !.rows = rows]]
    /\ UNCHANGED cacheFrame

\* main.go:474-482: the caller has encoded the records and returned.
QueryReturn ==
    /\ qry.called
    /\ cache' = [cache EXCEPT !.qry = NoQuery]
    /\ UNCHANGED cacheFrame

\* Mutant of createTables: the tables are made anew.
createTables_Fresh(T) == [t \in TableNames |-> <<>>]

\* createTables (lines 41-69): CREATE TABLE IF NOT EXISTS for each table; a
\* table that is in the file already is left as it is.
createTables(T) == [t \in TableNames |-> IF t \in DOMAIN T THEN T[t] ELSE <<>>]

\* Init (lines 21-38) on the directory of a store that exists: the process
\* was started again with the same -D; what it held in memory is gone, the
\* file is opened and createTables runs.
CacheReopen ==
    /\ dbOpen
    /\ cache' = [cache EXCEPT !.tables = createTables(tables), !.qry = NoQuery]
    /\ UNCHANGED cacheFrame

\* A second passes.
Tick ==
    /\ now < ClockStart + MaxTicks
    /\ cache' = [cache EXCEPT !.now = now + 1]
    /\ UNCHANGED cacheFrame

\* main (main.go:101-106): cache.Init runs only when -D names a directory.
CacheInit ==
    /\ ServerIdle /\ DispatchIdle /\ StdioIdle /\ FnIdle /\ SmIdle
    /\ \E open \in BOOLEAN :
          cache = [dbOpen |-> open, tables |-> [t \in TableNames |-> <<>>],
                   now |-> ClockStart, saved |-> {}, qry |-> NoQuery,
                   inflight |-> [g \in Savers |-> NoSave]]

CacheNext ==
    \/ \E target \in Targets : \E result \in Outputs : \E execOK \in BOOLEAN :
          RecordLatency(target, "quick", result, execOK) /\ UNCHANGED cacheFrame
    \/ \E target \in Targets : \E result \in Outputs : \E execOK \in BOOLEAN :
          RecordTraceroute(target, result, execOK) /\ UNCHANGED cacheFrame
    \/ \E result \in Outputs : \E execOK \in BOOLEAN :
          RecordSystemStats(result, execOK) /\ UNCHANGED cacheFrame
    \/ \E tool \in {"latency", "traceroute", "system_stats", "latency_check"} :
          \E startTime \in QueryTimes : \E endTime \in QueryTimes :
            \E target \in {"", "a", "b"} : QueryRecords(tool, startTime, endTime, target)
    \/ QueryReturn
    \/ CacheReopen
    \/ Tick

CacheSpec == CacheInit /\ [][CacheNext]_vars


\* The table that holds the records of a persisted tool name.
PersistedTools == {"latency", "traceroute", "system_stats"}

\* C19: once a save for tool t with output o has succeeded with timestamp
\* ts, every later query for t without target filter whose interval holds ts
\* (start <= ts <= end, a bound that is not given being open) returns, without
\* error, a list with a record of t's table that has timestamp ts and output
\* o, whatever other saves came in between.
C19_SavedIsFound ==
    (qry.called /\ qry.tool \in PersistedTools /\ qry.target = "") =>
        \A sv \in qry.savedBefore :
            (/\ sv.table = TableOf(qry.tool)
             /\ (qry.startTime = <<>> \/ LexLE(qry.startTime, sv.timestamp))
             /\ (qry.endTime = <<>> \/ LexLE(sv.timestamp, qry.endTime))) =>
                /\ qry.err = ""
                /\ \E k \in DOMAIN qry.rows :
                      /\ qry.rows[k].id = sv.id
                      /\ qry.rows[k].timestamp = sv.timestamp
                      /\ qry.rows[k].result = sv.result

C19_Witness ==
    /\ qry.called
    /\ qry.tool = "traceroute"
    /\ qry.startTime # <<>>
    /\ qry.endTime # <<>>
    /\ Len(qry.rows) = 1
    /\ \E sv \in qry.savedBefore : sv.table = "latency_records"
    /\ \E sv \in qry.savedBefore :
          /\ sv.table = "traceroute_records"
          /\ sv.result = qry.rows[1].result
          /\ sv.timestamp = qry.rows[1].timestamp

\* C20: a query for a tool name without target filter returns exactly the
\* records of that tool stored before it whose timestamp t has
\* start <= t < end in the order of strings (a bound that is not given being
\* open), each once, a later timestamp never after an earlier one.
C20_HalfOpenQuery ==
    (qry.called /\ qry.err = "" /\ qry.target = "") =>
        /\ { qry.rows[k].id : k \in DOMAIN qry.rows } =
              { sv.id : sv \in { x \in qry.savedBefore :
                    /\ x.table = TableOf(qry.tool)
                    /\ (qry.startTime = <<>> \/ LexLE(qry.startTime, x.timestamp))
                    /\ (qry.endTime = <<>> \/ LexLess(x.timestamp, qry.endTime)) } }
        /\ \A i, j \in DOMAIN qry.rows : (i # j) => qry.rows[i].id # qry.rows[j].id
        /\ \A i, j \in DOMAIN qry.rows :
              (i < j) => LexLE(qry.rows[j].timestamp, qry.rows[i].timestamp)


\* C22: the store is append-only. No step changes or removes a row that is
\* in a table; a step that changes the tables is a save that succeeded, and
\* it adds one row to one table, with an id greater than every id of that
\* table, and is the one step that adds to the saved records.
C22_AppendOnly ==
    [][/\ \A t \in TableNames :
             /\ Len(tables'[t]) >= Len(tables[t])
             /\ \A i \in 1..Len(tables[t]) : tables'[t][i] = tables[t][i]
       /\ (tables' # tables) =>
             /\ \E t \in TableNames :
                   /\ Len(tables'[t]) = Len(tables[t]) + 1
                   /\ \A i \in 1..Len(tables[t]) :
                         tables'[t][Len(tables'[t])].id > tables[t][i].id
                   /\ \A u \in TableNames \ {t} : tables'[u] = tables[u]
                   /\ saved' = saved \cup
                         {[table |-> t, id |-> tables'[t][Len(tables'[t])].id,
                           timestamp |-> tables'[t][Len(tables'[t])].timestamp,
                           result |-> tables'[t][Len(tables'[t])].result]}
                   /\ saved' # saved
       /\ (tables' = tables) => (saved' = saved)]_vars

\* Two saves into one table, then a query that found both rows.
C22_Witness ==
    /\ Len(tables["latency_records"]) = 2
    /\ tables["latency_records"][1].id < tables["latency_records"][2].id
    /\ Cardinality(saved) = 2
    /\ qry.called
    /\ Len(qry.rows) = 2

\* ---- Record* called by several request goroutines (main.go:231-247) ----

\* The row a goroutine saves: a table of its own choice, one target, one
\* output.
SaveRow(table, ts) ==
    IF table = "latency_records"
    THEN [id |-> 0, timestamp |-> ts, target |-> "a", mode |-> "quick", result |-> "o1"]
    ELSE IF table = "traceroute_records"
    THEN [id |-> 0, timestamp |-> ts, target |-> "a", result |-> "o1"]
    ELSE [id |-> 0, timestamp |-> ts, result |-> "o1"]

\* The Record calls that have evaluated their arguments and not yet
\* inserted.
Pending == { g \in Savers : inflight[g].pc = "exec" }

\* cache.go:76, 85, 94, first half: the call has passed the DB == nil test
\* and evaluates the arguments of DB.Exec, LocalTimeNow() among them; with
\* no DB it returns nil at once.
SaveStart(g, table) ==
    /\ inflight[g].pc = "idle"
    /\ TotalRows + Cardinality(Pending) < MaxRows
    /\ IF dbOpen
       THEN cache' = [cache EXCEPT !.inflight[g] =
                         [pc |-> "exec", table |-> table, timestamp |-> LocalTimeNow]]
       ELSE UNCHANGED cache
    /\ UNCHANGED cacheFrame

\* cache.go:76, 85, 94, second half: DB.Exec runs the INSERT with the
\* arguments evaluated before, and the call returns.
SaveExec(g, execOK) ==
    /\ inflight[g].pc = "exec"
    /\ LET c == IF execOK
                THEN Inserted(inflight[g].table,
                              SaveRow(inflight[g].table, inflight[g].timestamp))
                ELSE cache
       IN cache' = [c EXCEPT !.inflight[g] = NoSave]
    /\ UNCHANGED cacheFrame

\* The server runs with or without -D; no request has arrived.
SaveInit ==
    /\ ServerIdle /\ DispatchIdle /\ StdioIdle /\ FnIdle /\ SmIdle
    /\ \E open \in BOOLEAN :
          cache = [dbOpen |-> open, tables |-> [t \in TableNames |-> <<>>],
                   now |-> ClockStart, saved |-> {}, qry |-> NoQuery,
                   inflight |-> [g \in Savers |-> NoSave]]

SaveNext ==
    \/ \E g \in Savers : \E table \in TableNames : SaveStart(g, table)
    \/ \E g \in Savers : \E execOK \in BOOLEAN : SaveExec(g, execOK)
    \/ Tick

SaveSpec == SaveInit /\ [][SaveNext]_vars

\* C23: in each table, taken in the order of the ids, the timestamps of the
\* rows never decrease, also when the saves of concurrent calls interleave.
C23_TimestampsNonDecreasing ==
    \A t \in TableNames :
        \A i, j \in 1..Len(tables[t]) :
            (tables[t][i].id < tables[t][j].id) =>
                LexLE(tables[t][i].timestamp, tables[t][j].timestamp)

\* ---- tool calls with the record store: handleRequest and pkg/cache ----

\* Targets with a shell character: a command appended to an address, and a
\* host name followed by each of the characters.
InjectionTarget == "8.8.8.8; rm -rf /"
InjectionTargets == {InjectionTarget} \cup { "host" \o c : c \in ShellChars }

\* A host name one character longer than validateTarget lets through.
RECURSIVE Repeat(_, _)
Repeat(c, n) ==
    IF n = 0 THEN ""
    ELSE LET half == Repeat(c, n \div 2) IN
         IF n % 2 = 0 THEN half \o half ELSE half \o half \o c
LongTarget == Repeat("a", MaxHostLen + 1)

\* The calls a client makes here: each persisted tool with and without its
\* arguments, with a target that is not a host name, and a tool that keeps
\* no records.
PersistRequests ==
    { Req("tools/call", IdOf(1), TRUE, "system_stats", NoArgs),
      Req("tools/call", IdOf(1), TRUE, "kill_process", [NoArgs EXCEPT !.pid = 1]),
      Req("tools/call", IdOf(1), TRUE, "read_records", [NoArgs EXCEPT !.tool = "latency"]),
      Req("tools/call", IdOf(1), TRUE, "port_status", NoArgs),
      Req("tools/call", IdOf(1), FALSE, "system_stats", NoArgs),
      Req("tools/list", IdOf(1), FALSE, "", NoArgs) }
    \cup
    { Req("tools/call", IdOf(1), TRUE, "latency_check",
          [NoArgs EXCEPT !.target = t, !.mode = m]) :
         t \in {"", "host", InjectionTarget}, m \in {"", "quick", "fast"} }
    \cup
    { Req("tools/call", IdOf(1), TRUE, "traceroute", [NoArgs EXCEPT !.target = t]) :
         t \in {"", "host", LongTarget} \cup InjectionTargets }

\* main (main.go:96-113) has run, with or without -D, and the first request
\* has arrived.
PersistInit ==
    /\ ServerIdle /\ StdioIdle /\ FnIdle /\ SmIdle
    /\ \E req \in PersistRequests :
          disp = [pc |-> "ready", req |-> req, resp |-> NilResp, called |-> "none",
                  outcome |-> "none", logged |-> FALSE, command |-> "none"]
    /\ \E open \in BOOLEAN :
          cache = [dbOpen |-> open, tables |-> [t \in TableNames |-> <<>>],
                   now |-> ClockStart, saved |-> {}, qry |-> NoQuery,
                   inflight |-> [g \in Savers |-> NoSave]]

\* Mutant of ToolCall: a save that fails fails the tool call.
ToolCall_SaveFatal(outcome, execOK) ==
    /\ dpc = "ready"
    /\ LET r == recordCall(dreq, outcome) IN
       /\ disp' = [disp EXCEPT
                      !.resp = IF r.table # "" /\ dbOpen /\ ~execOK
                               THEN createErrorResponse(dreq.id, "Failed to record")
                               ELSE handleRequest(dreq, outcome),
                      !.called = HandlerCalled(dreq),
                      !.outcome = outcome,
                      !.command = Subprocess(dreq),
                      !.logged = (r.table # "" /\ dbOpen /\ ~execOK),
                      !.pc = "done"]
       /\ CASE r.table = "latency_records" ->
                 RecordLatency(r.target, r.mode, r.result, execOK)
            [] r.table = "traceroute_records" ->
                 RecordTraceroute(r.target, r.result, execOK)
            [] r.table = "system_stats_records" -> RecordSystemStats(r.result, execOK)
            [] OTHER -> UNCHANGED cache
    /\ UNCHANGED <<serverVars, stdio, fn, sm>>

\* handleRequest with the store behind it (main.go:396-459): the tool runs,
\* and on its success path the output is handed to cache.Record*, whose
\* error is logged (lines 403-405, 435-437, 455-457) before the same
\* createSuccessResponse is returned.
ToolCall(outcome, execOK) ==
    /\ dpc = "ready"
    /\ LET r == recordCall(dreq, outcome) IN
       /\ disp' = [disp EXCEPT
                      !.resp = handleRequest(dreq, outcome),
                      !.called = HandlerCalled(dreq),
                      !.outcome = outcome,
                      !.command = Subprocess(dreq),
                      !.logged = (r.table # "" /\ dbOpen /\ ~execOK),
                      !.pc = "done"]
       /\ CASE r.table = "latency_records" ->
                 RecordLatency(r.target, r.mode, r.result, execOK)
            [] r.table = "traceroute_records" ->
                 RecordTraceroute(r.target, r.result, execOK)
            [] r.table = "system_stats_records" -> RecordSystemStats(r.result, execOK)
            [] OTHER -> UNCHANGED cache
    /\ UNCHANGED <<serverVars, stdio, fn, sm>>

\* The next request of the same process.
PersistNextReq(req) ==
    /\ dpc = "done"
    /\ disp' = [pc |-> "ready", req |-> req, resp |-> NilResp, called |-> "none",
                outcome |-> "none", logged |-> FALSE, command |-> "none"]
    /\ UNCHANGED <<serverVars, stdio, cache, fn, sm>>

PersistNext ==
    \/ \E outcome \in {"ok", "fail"} : \E execOK \in BOOLEAN : ToolCall(outcome, execOK)
    \/ \E req \in PersistRequests : PersistNextReq(req)
    \/ Tick

PersistSpec == PersistInit /\ [][PersistNext]_vars

\* C21: persistence is best-effort. The response of a tool call is the one
\* the call and its tool's outcome determine, the same whether the save
\* succeeded, failed (and was logged) or there is no store; without a store
\* the save reports no error and nothing is stored.
C21_BestEffortSave ==
    (dpc = "done") =>
        /\ dresp = handleRequest(dreq, doutcome)
        /\ dlogged => (dbOpen /\ dresp.result.kind = "call" /\ ~dresp.result.isError)
        /\ ~dbOpen => (~dlogged /\ TotalRows = 0 /\ saved = {})

C21_Witness ==
    /\ dpc = "done"
    /\ dlogged
    /\ dreq.name = "latency_check"
    /\ dresp = createSuccessResponse(dreq.id, "latency output")
    /\ TotalRows = 1


C24_InjectionRejected ==
    [][(/\ dpc = "ready"
        /\ dpc' = "done"
        /\ dreq.method = "tools/call" /\ dreq.paramsOK /\ dreq.name = "traceroute"
        /\ ContainsAny(getStringArg(dreq.args, "target"), ShellChars)) =>
           /\ dresp'.nil = FALSE
           /\ dresp'.id = dreq.id
           /\ dresp'.error = NoError
           /\ dresp'.result.kind = "call"
           /\ dresp'.result.isError
           /\ Contains(dresp'.result.text, "invalid characters in target")
           /\ dcommand' = "none"
           /\ tables' = tables
           /\ saved' = saved]_vars

\* The call with the shell character has been answered by a server whose
\* store is open and has taken a record before.
C24_Witness ==
    /\ dpc = "done"
    /\ dreq.name = "traceroute"
    /\ getStringArg(dreq.args, "target") = InjectionTarget
    /\ dresp.result.isError
    /\ dbOpen
    /\ TotalRows = 1


\* Whether validateTarget's rules refuse the target: a shell character, or
\* more than 253 characters in what is not an IP literal.
Refusable(target) ==
    \/ ContainsAny(target, ShellChars)
    \/ ~ParseIP(target) /\ Len(target) > MaxHostLen

\* C25: every tool that hands its target to an external command, latency
\* as well as traceroute, refuses such a target before any subprocess is
\* started.
C25_TargetsValidated ==
    (/\ dpc = "done"
     /\ dreq.method = "tools/call" /\ dreq.paramsOK
     /\ dreq.name \in {"traceroute", "latency_check"}
     /\ Refusable(getStringArg(dreq.args, "target"))) =>
        /\ dcommand = "none"
        /\ dresp.result.isError


\* ---- the API key given with -o (README.md: main, isValidAPIKey) ----
KeyPrefix == "sk-netutil-"

\* strings.HasPrefix(s, prefix).
HasPrefix(s, prefix) == Len(s) >= Len(prefix) /\ SubSeq(s, 1, Len(prefix)) = prefix

\* isValidAPIKey(key) (README.md:800-808).
isValidAPIKey(key) ==
    IF ~HasPrefix(key, KeyPrefix) THEN FALSE
    ELSE IF Len(key) # Len(KeyPrefix) + KeyBodyLen THEN FALSE
    ELSE TRUE

\* The charset of generateAPIKey (README.md:787): the letters and digits.
KeyCharset ==
    {"a", "b", "c", "d", "e", "f", "g", "h", "i", "j", "k", "l", "m", "n", "o", "p",
     "q", "r", "s", "t", "u", "v", "w", "x", "y", "z",
     "A", "B", "C", "D", "E", "F", "G", "H", "I", "J", "K", "L", "M", "N", "O", "P",
     "Q", "R", "S", "T", "U", "V", "W", "X", "Y", "Z"} \cup Digits

\* The keys a user passes with -o: a prefix, right or wrong, then 31, 32 or
\* 33 characters of which the last is a letter, a digit or something else;
\* and no key at all.
Keys ==
    {""} \cup
    { p \o Repeat(c, n) \o d :
         p \in {KeyPrefix, "sk-netutil_", "key-"},
         n \in {KeyBodyLen - 2, KeyBodyLen - 1, KeyBodyLen},
         c \in {"a", "Z"},
         d \in {"7", "q", "!", "-", " "} }

NoStart == [valid |-> FALSE, started |-> FALSE]

KeyInit ==
    /\ ServerIdle /\ DispatchIdle /\ StdioIdle /\ CacheIdle /\ SmIdle
    /\ \E key \in Keys : fn = [pc |-> "ready", arg |-> key, ret |-> NoStart]

\* main (README.md:514-519): a key that is given is validated and the
\* program ends with log.Fatal when it is not valid; without -o nothing is
\* validated and the server starts without a key.
KeyCheck ==
    /\ fpc = "ready"
    /\ fn' = [fn EXCEPT !.ret = [valid |-> isValidAPIKey(farg),
                                 started |-> (farg = "" \/ isValidAPIKey(farg))],
                        !.pc = "done"]
    /\ UNCHANGED <<serverVars, disp, stdio, cache, sm>>

\* The program is started again with another key.
KeyNext(key) ==
    /\ fpc = "done"
    /\ fn' = [pc |-> "ready", arg |-> key, ret |-> NoStart]
    /\ UNCHANGED <<serverVars, disp, stdio, cache, sm>>

KeyNextStep ==
    \/ KeyCheck
    \/ \E key \in Keys : KeyNext(key)

KeySpec == KeyInit /\ [][KeyNextStep]_vars

\* The pattern sk-netutil-[A-Za-z0-9]{32}.
MatchesKeyPattern(key) ==
    /\ HasPrefix(key, KeyPrefix)
    /\ Len(key) = Len(KeyPrefix) + KeyBodyLen
    /\ \A i \in (Len(KeyPrefix) + 1)..Len(key) : CharAt(key, i) \in KeyCharset

\* C26: the validator accepts a key exactly when it is sk-netutil- followed
\* by 32 letters and digits, and the server does not start with a key that
\* is given and is anything else.
C26_KeyPattern ==
    (fpc = "done") =>
        /\ fret.valid <=> MatchesKeyPattern(farg)
        /\ (farg # "" /\ ~MatchesKeyPattern(farg)) => ~fret.started


\* ---- manage_service (pkg/systemd/control.go, README.md:697-721) ----

\* allowedActions (control.go:15-23).
AllowedActions == {"start", "stop", "restart", "reload", "enable", "disable", "status"}

\* Mutant of ControlService: a failing status is an error like any other.
ControlService_StatusIsError(unit, action, exit, output) ==
    IF unit = "" THEN [output |-> "", err |-> "unit name cannot be empty", invoked |-> FALSE]
    ELSE IF action \notin AllowedActions
    THEN [output |-> "", err |-> "invalid action '" \o action \o "'", invoked |-> FALSE]
    ELSE IF exit # 0
    THEN [output |-> output,
          err |-> "failed to execute systemctl " \o action \o " " \o unit,
          invoked |-> TRUE]
    ELSE [output |-> output, err |-> "nil", invoked |-> TRUE]

\* ControlService(unit, action) (control.go:10-41): the output and the error
\* ("nil" for none), and whether systemctl was run; exit and output are
\* what systemctl does when it is run.
ControlService(unit, action, exit, output) ==
    IF unit = "" THEN [output |-> "", err |-> "unit name cannot be empty", invoked |-> FALSE]
    ELSE IF action \notin AllowedActions
    THEN [output |-> "", err |-> "invalid action '" \o action \o "'", invoked |-> FALSE]
    ELSE IF exit # 0
    THEN IF action = "status"
         THEN [output |-> output, err |-> "nil", invoked |-> TRUE]
         ELSE [output |-> output,
               err |-> "failed to execute systemctl " \o action \o " " \o unit,
               invoked |-> TRUE]
    ELSE [output |-> output, err |-> "nil", invoked |-> TRUE]

\* The handler of manage_service (README.md:706-720): the CallToolResult.
manageService(unit, action, exit, output) ==
    LET r == ControlService(unit, action, exit, output) IN
    IF r.err # "nil"
    THEN [invoked |-> r.invoked, isError |-> TRUE,
          text |-> "Error: " \o r.err \o "\nOutput: " \o r.output]
    ELSE [invoked |-> r.invoked, isError |-> FALSE,
          text |-> "Successfully executed '" \o action \o "' on service '" \o unit
                   \o "'\nOutput:\n" \o r.output]

\* The calls of manage_service: with and without unit, every allowed action
\* and three that are not, and what systemctl answers.
ServiceCalls ==
    { [unit |-> u, action |-> a, exit |-> e, output |-> o] :
         u \in {"", "nginx.service"},
         a \in AllowedActions \cup {"", "kill", "Status"},
         e \in {0, 1, 3},
         o \in {"", "inactive (dead)"} }

NoServiceResult == [invoked |-> FALSE, isError |-> FALSE, text |-> ""]

ServiceInit ==
    /\ ServerIdle /\ DispatchIdle /\ StdioIdle /\ CacheIdle /\ SmIdle
    /\ \E c \in ServiceCalls : fn = [pc |-> "ready", arg |-> c, ret |-> NoServiceResult]

\* The handler runs for the call.
ServiceCall ==
    /\ fpc = "ready"
    /\ fn' = [fn EXCEPT !.ret = manageService(farg.unit, farg.action, farg.exit,
                                              farg.output),
                        !.pc = "done"]
    /\ UNCHANGED <<serverVars, disp, stdio, cache, sm>>

\* The next call.
ServiceNext(c) ==
    /\ fpc = "done"
    /\ fn' = [pc |-> "ready", arg |-> c, ret |-> NoServiceResult]
    /\ UNCHANGED <<serverVars, disp, stdio, cache, sm>>

ServiceNextStep ==
    \/ ServiceCall
    \/ \E c \in ServiceCalls : ServiceNext(c)

ServiceSpec == ServiceInit /\ [][ServiceNextStep]_vars

\* C27: manage_service refuses an empty unit and an action outside the
\* seven allowed ones without running systemctl; when systemctl exits
\* non-zero, action status gives a success result that carries the output
\* and every other action gives an isError result.
C27_ManageService ==
    (fpc = "done") =>
        /\ (farg.unit = "" \/ farg.action \notin AllowedActions) =>
              (~fret.invoked /\ fret.isError)
        /\ (farg.unit # "" /\ farg.action = "status" /\ farg.exit # 0) =>
              (fret.invoked /\ ~fret.isError /\ Contains(fret.text, farg.output))
        /\ (farg.unit # "" /\ farg.action \in AllowedActions \ {"status"}
              /\ farg.exit # 0) =>
              (fret.invoked /\ fret.isError)

C27_Witness ==
    /\ fpc = "done"
    /\ farg.unit = "nginx.service"
    /\ farg.action = "status"
    /\ farg.exit = 3
    /\ farg.output = "inactive (dead)"
    /\ ~fret.isError
    /\ fret.invoked


\* ---- the process-kill tool: kill_process (main.go:483-506) and pkill
\* ---- (README.md:600-619) ----

\* The values of the pid argument. A JSON number is whole, with or without
\* a fraction, and over counts how many times 2^31 lies below it: the
\* number is over * 2^31 + whole (+ 0.5 with a fraction), which keeps every
\* figure of the model within 32 bits while the pid itself needs more.
PidValues ==
    {[kind |-> "absent", whole |-> 0, over |-> 0, frac |-> FALSE, str |-> ""],
     [kind |-> "bool", whole |-> 0, over |-> 0, frac |-> FALSE, str |-> ""]}
    \cup { [kind |-> "number", whole |-> n, over |-> 0, frac |-> f, str |-> ""] :
              n \in {0, 1, 99, 4242}, f \in BOOLEAN }
    \cup { [kind |-> "number", whole |-> n, over |-> o, frac |-> FALSE, str |-> ""] :
              n \in {0, 1}, o \in {1, 2} }
    \cup { [kind |-> "string", whole |-> 0, over |-> 0, frac |-> FALSE, str |-> t] :
              t \in {"", "abc", "0", "7", "7x", "x7"} }

\* The digits s starts with.
RECURSIVE LeadingDigits(_)
LeadingDigits(t) ==
    IF Len(t) = 0 \/ CharAt(t, 1) \notin Digits THEN ""
    ELSE CharAt(t, 1) \o LeadingDigits(SubSeq(t, 2, Len(t)))

\* fmt.Sscanf(v, "%d", &pid) (main.go:492): pid is set to the number v
\* starts with and is left at 0 when v starts with none.
Sscanf(t) == DecValue(LeadingDigits(t))

\* A Go int (64 bits) that is not negative: over * 2^31 + low.
GoInt(over, low) == [over |-> over, low |-> low]

\* int32(pid) (main.go:502): the low 32 bits, read as a signed number.
MinInt32 == 0 - 2147483647 - 1
Int32(pid) == IF pid.over % 2 = 0 THEN pid.low ELSE pid.low + MinInt32

\* main.go:484-496: the local pid after the type switch; int(v) of a
\* float64 drops the fraction.
pidOf(v) ==
    CASE v.kind = "number" -> GoInt(v.over, v.whole)
      [] v.kind = "string" -> GoInt(0, Sscanf(v.str))
      [] OTHER -> GoInt(0, 0)

\* The kill_process branch (main.go:483-506); passed holds the pid given to
\* system.KillProcess (empty when it is not called), named the pid that
\* the text of the answer prints with %d, and outcome is what KillProcess
\* returns.
killProcess(v, outcome) ==
    IF pidOf(v) = GoInt(0, 0)
    THEN [isError |-> TRUE, text |-> "Error: Must provide valid 'pid'", passed |-> <<>>,
          named |-> GoInt(0, 0)]
    ELSE IF outcome = "fail"
    THEN [isError |-> TRUE, text |-> "Failed to kill process",
          passed |-> <<Int32(pidOf(v))>>, named |-> pidOf(v)]
    ELSE [isError |-> FALSE, text |-> "Successfully killed process",
          passed |-> <<Int32(pidOf(v))>>, named |-> pidOf(v)]

\* int32(pidFloat) (README.md:612). The conversion of a float64 that int32
\* cannot hold is left to the implementation by the language: the low bits,
\* the smallest int32 or the largest one.
Conversions == {"wrap", "indefinite", "saturate"}
Float64ToInt32(v, conv) ==
    IF v.over = 0 THEN v.whole
    ELSE CASE conv = "wrap" -> Int32(GoInt(v.over, v.whole))
           [] conv = "indefinite" -> MinInt32
           [] OTHER -> 2147483647

\* The handler of pkill (README.md:607-618): a pid that is not a float64 is
\* refused; any float64 is converted and given to system.KillProcess, and
\* the text names the converted pid.
pkill(v, outcome, conv) ==
    IF v.kind # "number"
    THEN [isError |-> TRUE, text |-> "invalid pid", passed |-> <<>>, named |-> GoInt(0, 0)]
    ELSE IF outcome = "fail"
    THEN [isError |-> TRUE, text |-> "process not found",
          passed |-> <<Float64ToInt32(v, conv)>>, named |-> GoInt(0, 0)]
    ELSE [isError |-> FALSE, text |-> "Process killed",
          passed |-> <<Float64ToInt32(v, conv)>>,
          named |-> GoInt(0, Float64ToInt32(v, conv))]

KillCalls ==
    { [tool |-> t, pid |-> v, outcome |-> o] :
         t \in {"kill_process", "pkill"}, v \in PidValues, o \in {"ok", "fail"} }

NoKillResult == [isError |-> FALSE, text |-> "", passed |-> <<>>, named |-> GoInt(0, 0)]

KillInit ==
    /\ ServerIdle /\ DispatchIdle /\ StdioIdle /\ CacheIdle /\ SmIdle
    /\ \E c \in KillCalls : fn = [pc |-> "ready", arg |-> c, ret |-> NoKillResult]

\* The tool's handler runs for the call.
KillCall(conv) ==
    /\ fpc = "ready"
    /\ fn' = [fn EXCEPT !.ret = IF farg.tool = "kill_process"
                                THEN killProcess(farg.pid, farg.outcome)
                                ELSE pkill(farg.pid, farg.outcome, conv),
                        !.pc = "done"]
    /\ UNCHANGED <<serverVars, disp, stdio, cache, sm>>

\* The next call.
KillNext(c) ==
    /\ fpc = "done"
    /\ fn' = [pc |-> "ready", arg |-> c, ret |-> NoKillResult]
    /\ UNCHANGED <<serverVars, disp, stdio, cache, sm>>

KillNextStep ==
    \/ \E conv \in Conversions : KillCall(conv)
    \/ \E c \in KillCalls : KillNext(c)

KillSpec == KillInit /\ [][KillNextStep]_vars

\* A pid that is 0, missing or not a number.
NoPid(v) ==
    \/ v.kind \in {"absent", "bool"}
    \/ v.kind = "number" /\ v.whole = 0 /\ ~v.frac
    \/ v.kind = "string" /\ LeadingDigits(v.str) = ""

C37_PidInRange ==
    (fpc = "done" /\ farg.pid.kind = "number" /\ ~farg.pid.frac) =>
        IF farg.pid.over # 0
        THEN fret.isError /\ fret.passed = <<>>
        ELSE /\ (fret.passed # <<>>) => fret.passed = <<farg.pid.whole>>
             /\ ~fret.isError => fret.named = GoInt(0, fret.passed[1])


\* ---- parsePingOutput (pkg/latency: latency_test.go:188-247) ----

\* A pattern is a sequence of tokens: a literal text, or one or more
\* characters of a class (whose text is captured).
Lit(t) == [kind |-> "lit", lit |-> t, cls |-> {}]
Some(c) == [kind |-> "cls", lit |-> "", cls |-> c]

\* Whether the text lit stands in s at position i.
LitAt(s, i, lit) == i + Len(lit) - 1 <= Len(s) /\ SubSeq(s, i, i + Len(lit) - 1) = lit

\* The number of characters of class cls that stand in s from position i on.
RECURSIVE RunLen(_, _, _)
RunLen(s, i, cls) ==
    IF i > Len(s) \/ CharAt(s, i) \notin cls THEN 0 ELSE 1 + RunLen(s, i + 1, cls)

\* The match of the tokens in s at position i: whether there is one, and
\* the captured texts. Every class here is followed by a character outside
\* it, so the longest run is the only one that can match.
NoMatch == [ok |-> FALSE, caps |-> <<>>]
RECURSIVE MatchFrom(_, _, _)
MatchFrom(s, i, toks) ==
    IF toks = <<>> THEN [ok |-> TRUE, caps |-> <<>>]
    ELSE LET t == Head(toks) IN
         IF t.kind = "lit"
         THEN IF LitAt(s, i, t.lit) THEN MatchFrom(s, i + Len(t.lit), Tail(toks))
              ELSE NoMatch
         ELSE LET n == RunLen(s, i, t.cls) IN
              IF n = 0 THEN NoMatch
              ELSE LET r == MatchFrom(s, i + n, Tail(toks)) IN
                   IF r.ok THEN [ok |-> TRUE, caps |-> <<SubSeq(s, i, i + n - 1)>> \o r.caps]
                   ELSE NoMatch

\* regexp.FindStringSubmatch for a pattern given as its alternatives in
\* the order of preference: the match that starts leftmost, and among the
\* alternatives that match there the first; alt is 0 when nothing matches.
FindStringSubmatch(s, alts) ==
    LET hits == { i \in 1..Len(s) : \E a \in DOMAIN alts : MatchFrom(s, i, alts[a]).ok } IN
    IF hits = {} THEN [alt |-> 0, caps |-> <<>>]
    ELSE LET i == CHOOSE k \in hits : \A m \in hits : k <= m
             a == CHOOSE k \in DOMAIN alts :
                     /\ MatchFrom(s, i, alts[k]).ok
                     /\ \A m \in DOMAIN alts : MatchFrom(s, i, alts[m]).ok => k <= m
         IN [alt |-> a, caps |-> MatchFrom(s, i, alts[a]).caps]

NumChars == Digits \cup {"."}

\* (\d+(?:\.\d+)?)% packet loss: with the fraction, or without it.
lossRegexUnix ==
    << <<Some(Digits), Lit("."), Some(Digits), Lit("% packet loss")>>,
       <<Some(Digits), Lit("% packet loss")>> >>

\* \((\d+)% loss\)
lossRegexWin == << <<Lit("("), Some(Digits), Lit("% loss)")>> >>

\* (?:rtt|round-trip) min/avg/max/(?:mdev|stddev) = ([0-9.]+)/([0-9.]+)/([0-9.]+)/([0-9.]+) ms
RttFields ==
    <<Some(NumChars), Lit("/"), Some(NumChars), Lit("/"), Some(NumChars), Lit("/"),
      Some(NumChars), Lit(" ms")>>
rttRegexUnix ==
    << <<Lit("rtt min/avg/max/mdev = ")>> \o RttFields,
       <<Lit("rtt min/avg/max/stddev = ")>> \o RttFields,
       <<Lit("round-trip min/avg/max/mdev = ")>> \o RttFields,
       <<Lit("round-trip min/avg/max/stddev = ")>> \o RttFields >>

\* Minimum = (\d+)ms, Maximum = (\d+)ms, Average = (\d+)ms
rttRegexWin ==
    << <<Lit("Minimum = "), Some(Digits), Lit("ms, Maximum = "), Some(Digits),
         Lit("ms, Average = "), Some(Digits), Lit("ms")>> >>

\* LatencyResult (lines 141-145).
LatencyResult(avg, jitter, loss) ==
    [AvgLatency |-> avg, Jitter |-> jitter, PacketLoss |-> loss]

\* The packet loss parsed from output (lines 197-201): "" when no pattern
\* matches.
parseLoss(output) ==
    LET u == FindStringSubmatch(output, lossRegexUnix)
        w == FindStringSubmatch(output, lossRegexWin)
    IN IF u.alt = 1 THEN u.caps[1] \o "." \o u.caps[2] \o "%"
       ELSE IF u.alt = 2 THEN u.caps[1] \o "%"
       ELSE IF w.alt # 0 THEN w.caps[1] \o "%"
       ELSE ""

\* The result after the latency patterns (lines 213-234): the fields as
\* parsed, whether one of the patterns matched, before the filter by mode.
parseRtt(output, mode, loss) ==
    LET u == FindStringSubmatch(output, rttRegexUnix)
        w == FindStringSubmatch(output, rttRegexWin)
    IN IF u.alt # 0
       THEN [matched |-> TRUE,
             result |-> LatencyResult(u.caps[2] \o " ms",
                                      IF mode # "quick" THEN u.caps[4] \o " ms" ELSE "",
                                      loss)]
       ELSE IF w.alt # 0
       THEN [matched |-> TRUE,
             result |-> LatencyResult(w.caps[3] \o " ms",
                                      IF mode # "quick" THEN "N/A" ELSE "",
                                      loss)]
       ELSE [matched |-> FALSE, result |-> LatencyResult("", "", loss)]

\* parsePingOutput(output, mode) (lines 188-247): the result and the error
\* ("nil" for none). Without a latency match the result is returned as it
\* is, with the error unless the loss is "100%" (lines 227-233); with one,
\* the result is filtered by the mode (lines 237-244).
parsePingOutput(output, mode) ==
    LET r == parseRtt(output, mode, parseLoss(output)) IN
    IF ~r.matched
    THEN IF r.result.PacketLoss = "100%"
         THEN [result |-> r.result, err |-> "nil"]
         ELSE [result |-> r.result, err |-> "could not parse ping statistics"]
    ELSE [result |-> LatencyResult(r.result.AvgLatency,
                                   IF mode = "standard" THEN r.result.Jitter ELSE "",
                                   IF mode = "standard" THEN r.result.PacketLoss ELSE ""),
          err |-> "nil"]

\* The fields of the JSON object json.MarshalIndent writes for a result
\* (main.go:425, the tags of lines 142-144): avg_latency always, jitter and
\* packet_loss unless empty (omitempty).
JSONFields(r) ==
    {"avg_latency"}
    \cup (IF r.Jitter # "" THEN {"jitter"} ELSE {})
    \cup (IF r.PacketLoss # "" THEN {"packet_loss"} ELSE {})


\* The lines of a ping output that report the loss, each with the figure
\* it gives: none, Linux with no, some and total loss, macOS with total
\* loss, Windows with no and total loss.
LossLines ==
    {[line |-> "", pct |-> ""],
     [line |-> "10 packets transmitted, 10 received, 0% packet loss, time 9014ms\n",
      pct |-> "0%"],
     [line |-> "10 packets transmitted, 5 received, 50% packet loss, time 9014ms\n",
      pct |-> "50%"],
     [line |-> "10 packets transmitted, 0 received, 100% packet loss, time 9014ms\n",
      pct |-> "100%"],
     [line |-> "10 packets transmitted, 0 packets received, 100.0% packet loss\n",
      pct |-> "100.0%"],
     [line |-> "    Packets: Sent = 4, Received = 4, Lost = 0 (0% loss),\n", pct |-> "0%"],
     [line |-> "    Packets: Sent = 4, Received = 0, Lost = 4 (100% loss),\n",
      pct |-> "100%"]}

\* The summary lines of the round-trip times: none, Linux, macOS, Windows,
\* and a Linux line cut short.
RttLines ==
    {"",
     "rtt min/avg/max/mdev = 14.123/14.567/15.890/0.987 ms",
     "round-trip min/avg/max/stddev = 1.5/2.25/3.0/0.5 ms",
     "    Minimum = 14ms, Maximum = 16ms, Average = 15ms",
     "rtt min/avg/max/mdev = 14.123/14.567"}

\* The summary lines with a deviation field, and their avg and deviation.
UnixRtt ==
    {[line |-> "rtt min/avg/max/mdev = 14.123/14.567/15.890/0.987 ms",
      avg |-> "14.567", dev |-> "0.987"],
     [line |-> "round-trip min/avg/max/stddev = 1.5/2.25/3.0/0.5 ms",
      avg |-> "2.25", dev |-> "0.5"]}

\* The modes latency.Run calls the parser with (lines 154-161: the switch
\* is on the lower-case mode, the parser gets the mode as it came).
ParseModes == {"quick", "standard", "QUICK"}

PingInputs ==
    { [loss |-> l, rtt |-> r, mode |-> m,
       output |-> "--- 8.8.8.8 ping statistics ---\n" \o l.line \o r] :
         l \in LossLines, r \in RttLines, m \in ParseModes }

NoParse == [result |-> LatencyResult("", "", ""), err |-> "none"]

PingInit ==
    /\ ServerIdle /\ DispatchIdle /\ StdioIdle /\ CacheIdle /\ SmIdle
    /\ \E input \in PingInputs : fn = [pc |-> "ready", arg |-> input, ret |-> NoParse]

\* parsePingOutput is called with the output and the mode.
PingParse ==
    /\ fpc = "ready"
    /\ fn' = [fn EXCEPT !.ret = parsePingOutput(farg.output, farg.mode), !.pc = "done"]
    /\ UNCHANGED <<serverVars, disp, stdio, cache, sm>>

\* The next output.
PingNext(input) ==
    /\ fpc = "done"
    /\ fn' = [pc |-> "ready", arg |-> input, ret |-> NoParse]
    /\ UNCHANGED <<serverVars, disp, stdio, cache, sm>>

PingNextStep ==
    \/ PingParse
    \/ \E input \in PingInputs : PingNext(input)

PingSpec == PingInit /\ [][PingNextStep]_vars

\* C29: in quick mode every result returned without error holds avg_latency
\* only, jitter and packet_loss being empty; in standard mode, for an output
\* with a summary line of the round-trip times that has a deviation and
\* with a loss line, avg_latency is the avg field, jitter the deviation and
\* packet_loss the percentage of the loss line.
C29_FilterByMode ==
    (fpc = "done") =>
        /\ (farg.mode = "quick" /\ fret.err = "nil") =>
              /\ fret.result.Jitter = ""
              /\ fret.result.PacketLoss = ""
        /\ (farg.mode = "standard" /\ farg.loss.line # "") =>
              \A u \in UnixRtt :
                 (farg.rtt = u.line) =>
                    /\ fret.err = "nil"
                    /\ fret.result.AvgLatency = u.avg \o " ms"
                    /\ fret.result.Jitter = u.dev \o " ms"
                    /\ fret.result.PacketLoss = farg.loss.pct

\* Whether the output has a summary line of the round-trip times.
HasRtt(input) == input.rtt \in RttLines \ {"", "rtt min/avg/max/mdev = 14.123/14.567"}

\* Whether the loss line of the output gives the figure 100%.
TotalLoss(input) == input.loss.pct = "100%"

\* C30: for an output without summary line of the round-trip times, a loss
\* of 100% gives, without error, a result with packet_loss "100%" and no
\* avg_latency field; any other loss figure, or none, gives the error
\* "could not parse ping statistics".
C30_TotalLoss ==
    (fpc = "done" /\ ~HasRtt(farg)) =>
        IF TotalLoss(farg)
        THEN /\ fret.err = "nil"
             /\ fret.result.PacketLoss = "100%"
             /\ "avg_latency" \notin JSONFields(fret.result)
        ELSE fret.err = "could not parse ping statistics"

----------------------------------------------------------------------------
\* port.GetPortStatus (src/unnamed/part_004, lines 21-98): the listeners
\* that the output of ss names, all of them or those of one port.

MaxLines == 2

\* strings.Fields(line) (line 46) for a line whose white space is made of
\* blanks: the non-empty texts between the blanks.
Fields(line) == SelectSeq(Split(line, " "), LAMBDA f : f # "")

\* strings.LastIndex(s, ":") (line 57), counted from 1; 0 when s has no colon.
LastIndex(s, c) ==
    LET hits == { i \in 1..Len(s) : CharAt(s, i) = c } IN
    IF hits = {} THEN 0 ELSE CHOOSE i \in hits : \A j \in hits : j <= i

\* strconv.Atoi(t) (line 63): an optional sign and one or more digits.
Atoi(t) ==
    LET signed == Len(t) > 0 /\ CharAt(t, 1) \in {"+", "-"}
        digits == IF signed THEN SubSeq(t, 2, Len(t)) ELSE t
    IN IF Len(digits) = 0 \/ \E i \in 1..Len(digits) : CharAt(digits, i) \notin Digits
       THEN [ok |-> FALSE, val |-> 0]
       ELSE [ok |-> TRUE,
             val |-> IF signed /\ CharAt(t, 1) = "-" THEN 0 - DecValue(digits)
                     ELSE DecValue(digits)]

\* strings.Join(fields[from:], " ") (line 77).
RECURSIVE Join(_, _)
Join(fields, from) ==
    IF from > Len(fields) THEN ""
    ELSE IF from = Len(fields) THEN fields[from]
    ELSE fields[from] \o " " \o Join(fields, from + 1)

\* The pattern of line 80: the text users:((" , a name without a double
\* quote, the text ",pid= , digits, a comma.
processRegex(s) ==
    << <<Lit("users:((\""), Some({ CharAt(s, i) : i \in 1..Len(s) } \ {"\""}),
         Lit("\",pid="), Some(Digits), Lit(",")>> >>

\* Lines 73-87: the process of a line, "" when the line has no seventh field.
processInfo(fields) ==
    IF Len(fields) > 6
    THEN LET rawProc == Join(fields, 7)
             m == FindStringSubmatch(rawProc, processRegex(rawProc))
         IN IF m.alt # 0 THEN m.caps[1] \o " (pid=" \o m.caps[2] \o ")" ELSE rawProc
    ELSE ""

PortStatus(p, protocol, state, process) ==
    [Port |-> p, Protocol |-> protocol, State |-> state, Process |-> process]

\* The body of the loop of lines 37-95 for one line: the entries it appends.
portLine(line, port) ==
    LET fields == Fields(line) IN
    IF Len(fields) < 5 THEN <<>>
    ELSE LET localAddr == fields[5]
             lastColon == LastIndex(localAddr, ":")
         IN IF lastColon = 0 THEN <<>>
            ELSE LET p == Atoi(SubSeq(localAddr, lastColon + 1, Len(localAddr))) IN
                 IF ~p.ok THEN <<>>
                 ELSE IF port # 0 /\ p.val # port THEN <<>>
                 ELSE <<PortStatus(p.val, fields[1], fields[2], processInfo(fields))>>

RECURSIVE portLines(_, _)
portLines(lines, port) ==
    IF lines = <<>> THEN <<>>
    ELSE portLine(Head(lines), port) \o portLines(Tail(lines), port)

\* GetPortStatus without the test of line 69.
GetPortStatus_NoFilter(output, port, ssOK) ==
    IF ~ssOK THEN [results |-> <<>>, err |-> "ss command failed"]
    ELSE [results |-> portLines(Split(output, "\n"), 0), err |-> "nil"]

\* GetPortStatus (lines 21-98). A blank line has no field and is skipped by
\* the test of line 47 as it is by that of line 38.
GetPortStatus(output, port, ssOK) ==
    IF ~ssOK THEN [results |-> <<>>, err |-> "ss command failed"]
    ELSE [results |-> portLines(Split(output, "\n"), port), err |-> "nil"]

\* Lines that ss prints, each with the listener it names (ok is FALSE for
\* a line that names none): TCP with a process, UDP without one, IPv6 with
\* a process text of another form, the header, a short line, a service
\* name in place of the port, a blank line.
NoEntry == PortStatus(0, "", "", "")
SsLines ==
    {[line |-> "tcp LISTEN 0 128 0.0.0.0:80 0.0.0.0:* users:((\"nginx\",pid=1234,fd=6))",
      ok |-> TRUE, entry |-> PortStatus(80, "tcp", "LISTEN", "nginx (pid=1234)")],
     [line |-> "udp   UNCONN 0      0      0.0.0.0:53       0.0.0.0:*",
      ok |-> TRUE, entry |-> PortStatus(53, "udp", "UNCONN", "")],
     [line |-> "tcp LISTEN 0 128 [::]:80 [::]:* users:((sshd))",
      ok |-> TRUE, entry |-> PortStatus(80, "tcp", "LISTEN", "users:((sshd))")],
     [line |-> "Netid State Recv-Q Send-Q Local Address:Port Peer Address:Port",
      ok |-> FALSE, entry |-> NoEntry],
     [line |-> "tcp LISTEN 0", ok |-> FALSE, entry |-> NoEntry],
     [line |-> "tcp LISTEN 0 128 *:http *:*", ok |-> FALSE, entry |-> NoEntry],
     [line |-> "  ", ok |-> FALSE, entry |-> NoEntry]}

\* The output of ss: each line followed by a line feed.
RECURSIVE SsOutput(_)
SsOutput(ls) == IF ls = <<>> THEN "" ELSE Head(ls).line \o "\n" \o SsOutput(Tail(ls))

PortArgs == {0, 80, 53, 22}

PortInputs ==
    { [lines |-> ls, output |-> SsOutput(ls), port |-> port, ssOK |-> ssOK] :
        ls \in UNION { [1..n -> SsLines] : n \in 0..MaxLines },
        port \in PortArgs, ssOK \in BOOLEAN }

NoPorts == [results |-> <<>>, err |-> "none"]

PortInit ==
    /\ ServerIdle /\ DispatchIdle /\ StdioIdle /\ CacheIdle /\ SmIdle
    /\ fn \in { [pc |-> "ready", arg |-> input, ret |-> NoPorts] : input \in PortInputs }

PortCall ==
    /\ fpc = "ready"
    /\ fn' = [fn EXCEPT !.pc = "done",
                        !.ret = GetPortStatus(farg.output, farg.port, farg.ssOK)]
    /\ UNCHANGED <<serverVars, disp, stdio, cache, sm>>

PortNext(input) ==
    /\ fpc = "done"
    /\ fn' = [pc |-> "ready", arg |-> input, ret |-> NoPorts]
    /\ UNCHANGED <<serverVars, disp, stdio, cache, sm>>

PortNextStep ==
    \/ PortCall
    \/ \E input \in PortInputs : PortNext(input)

PortSpec == PortInit /\ [][PortNextStep]_vars

\* The listeners that the lines name, in the order of the lines.
RECURSIVE Listeners(_)
Listeners(ls) ==
    IF ls = <<>> THEN <<>>
    ELSE (IF Head(ls).ok THEN <<Head(ls).entry>> ELSE <<>>) \o Listeners(Tail(ls))

\* C31: when ss succeeds, port 0 gives one entry for every line that names
\* a listener, in order; a port p other than 0 gives exactly those of these
\* entries whose port is p, and the empty list when there is none.
C31_PortFilter ==
    (fpc = "done" /\ farg.ssOK) =>
        /\ fret.err = "nil"
        /\ (farg.port = 0) => fret.results = Listeners(farg.lines)
        /\ (farg.port # 0) =>
              /\ fret.results =
                    SelectSeq(Listeners(farg.lines), LAMBDA e : e.Port = farg.port)
              /\ (\A i \in DOMAIN farg.lines :
                     ~(farg.lines[i].ok /\ farg.lines[i].entry.Port = farg.port))
                 => fret.results = <<>>

\* A call for port 80 over two listeners, of which the one on port 53 is
\* left out.
C31_Witness ==
    /\ fpc = "done" /\ farg.ssOK /\ farg.port = 80
    /\ Len(fret.results) = 1
    /\ \E i \in DOMAIN farg.lines : farg.lines[i].ok /\ farg.lines[i].entry.Port = 53

----------------------------------------------------------------------------
\* One client that reads slowly: POST after POST for one session whose
\* stream writer may stay inside fmt.Fprintf (main.go:181) for as long as
\* the client does not read.

QueueSession == 1

\* The request of every POST here: it has an id, so it is answered.
QueueRequest(w) == Req("tools/list", IdOf(w), FALSE, "", NoArgs)

\* The worker goroutine of the slot has returned (main.go:247) and so has
\* the goroutine it started (main.go:236): the slot stands for the next
\* POST. sent counts the responses enqueued so far; one more than MsgChan
\* holds is enough to find it full.
WorkerExit(w) ==
    /\ ~panicked
    /\ wpc[w] = "done"
    /\ hstate[w] = "returned"
    /\ sent[w] <= MsgChanCap
    /\ post' = [post EXCEPT ![w] = NoPost]
    /\ wpc' = [wpc EXCEPT ![w] = "free"]
    /\ hstate' = [hstate EXCEPT ![w] = "none"]
    /\ ctx' = [ctx EXCEPT ![w] = "none"]
    /\ wout' = [wout EXCEPT ![w] = NilResp]
    /\ wbranch' = [wbranch EXCEPT ![w] = "none"]
    /\ UNCHANGED <<sseVars, resultChan, sent, panicked, auxVars>>

QueueNext ==
    \/ SSEConnect(QueueSession)
    \/ SSEEndpoint(QueueSession, TRUE)
    \/ SSEWrite(QueueSession)
    \/ \E w \in Slots : HandleMessages(w, "POST", QueueSession, TRUE, QueueRequest(w))
    \/ \E w \in Slots : HandlerReturn(w, "ok")
    \/ \E w \in Slots : WorkerSend(w)
    \/ \E w \in Slots : WorkerExit(w)

\* Every goroutine that can run does run: the handler returns and the
\* worker sends when the channel lets it. The stream writer depends on the
\* client reading, so nothing is assumed of SSEWrite.
QueueFairSpec ==
    /\ Init
    /\ [][QueueNext]_vars
    /\ \A w \in Slots : WF_vars(HandlerReturn(w, "ok"))
    /\ \A w \in Slots : WF_vars(WorkerSend(w))

\* C32: a worker that has a response to enqueue terminates, whether or not
\* the channel has room.
C32_EnqueueBounded ==
    \A w \in Slots : (wpc[w] = "send") ~> (wpc[w] = "done")

----------------------------------------------------------------------------
\* Several POSTs in flight for one session: the workers of handleMessages
\* run side by side and finish in any order.

OrderSession == 1
OrderSlots == 1..(MaxPosts + 1)

OrderRequests(w) ==
    { Req("tools/list", IdOf(w), FALSE, "", NoArgs),
      Req("tools/call", IdOf(w), TRUE, "traceroute", [NoArgs EXCEPT !.target = "host"]) }

\* The state after construction, with a worker slot for each POST.
OrderInit ==
    /\ sessions = {}
    /\ spc = [s \in SessionIds |-> "none"]
    /\ MsgChan = [s \in SessionIds |-> <<>>]
    /\ closes = [s \in SessionIds |-> <<>>]
    /\ stream = [s \in SessionIds |-> <<>>]
    /\ post = [w \in OrderSlots |-> NoPost]
    /\ wpc = [w \in OrderSlots |-> "free"]
    /\ hstate = [w \in OrderSlots |-> "none"]
    /\ ctx = [w \in OrderSlots |-> "none"]
    /\ resultChan = [w \in OrderSlots |-> <<>>]
    /\ wout = [w \in OrderSlots |-> NilResp]
    /\ wbranch = [w \in OrderSlots |-> "none"]
    /\ sent = [w \in OrderSlots |-> 0]
    /\ panicked = FALSE
    /\ DispatchIdle /\ StdioIdle /\ CacheIdle /\ FnIdle /\ SmIdle

OrderNext ==
    \/ SSEConnect(OrderSession)
    \/ SSEEndpoint(OrderSession, TRUE)
    \/ SSEWrite(OrderSession)
    \/ SSEDisconnect(OrderSession)
    \/ SSEClose(OrderSession)
    \/ \E w \in OrderSlots : \E req \in OrderRequests(w) :
          HandleMessages(w, "POST", OrderSession, TRUE, req)
    \/ \E w \in OrderSlots : \E outcome \in {"ok", "fail"} : HandlerReturn(w, outcome)
    \/ \E w \in OrderSlots : TimerExpire(w)
    \/ \E w \in OrderSlots : WorkerSend(w)

OrderSpec == OrderInit /\ [][OrderNext]_vars

\* C33: the responses of a session, those written as data frames followed
\* by those waiting in MsgChan, form one sequence that a step either leaves
\* as it is or extends at its end by the response a worker enqueues: the
\* frames come out in the order of the enqueues, none twice, none moved.
C33_CompletionOrder ==
    [][\A s \in SessionIds :
          \/ Enqueued(s)' = Enqueued(s)
          \/ \E w \in OrderSlots :
                /\ wpc[w] = "send"
                /\ post[w].sid = s
                /\ Enqueued(s)' = Append(Enqueued(s), wout[w])]_vars

\* The POST submitted second was answered first: its frame stands before
\* that of the POST submitted first.
C33_Witness ==
    /\ Len(DataFrames(OrderSession)) = 2
    /\ DataFrames(OrderSession)[1].resp.id = IdOf(2)
    /\ DataFrames(OrderSession)[2].resp.id = IdOf(1)

----------------------------------------------------------------------------
\* The two versions of main: src/main.go:92-113 and src/README.md:484-783.

GoodKey == KeyPrefix \o Repeat("a", KeyBodyLen)

\* The environment and the command line of one start. The flags -o and
\* -generate_key exist in the README version only.
StartKeys == {"", GoodKey, KeyPrefix \o "short", KeyPrefix \o Repeat("!", KeyBodyLen)}
Starts ==
    { [version |-> v, goos |-> g, euid |-> u, apiKey |-> k, genKey |-> gk,
       dbDir |-> d, initOK |-> i, sse |-> t] :
        v \in {"main.go", "README.md"}, g \in {"linux", "darwin"}, u \in {0, 1000},
        k \in StartKeys, gk \in BOOLEAN, d \in {"", "/var/lib/mcp"},
        i \in BOOLEAN, t \in BOOLEAN }

\* main of src/main.go (lines 92-113): the record store is initialized
\* when -D is given, then the transport is chosen by -p.
mainGo(st) ==
    IF st.dbDir # "" /\ ~st.initOK THEN "fatal"
    ELSE IF st.sse THEN "sse" ELSE "stdio"

\* main of src/README.md (lines 484-531 and 777-782).
mainReadme(st) ==
    IF st.goos # "linux" THEN "fatal"
    ELSE IF st.genKey THEN "exit"
    ELSE IF st.euid # 0 THEN "fatal"
    ELSE IF st.apiKey # "" /\ ~isValidAPIKey(st.apiKey) THEN "fatal"
    ELSE IF st.dbDir # "" /\ ~st.initOK THEN "fatal"
    ELSE IF st.sse THEN "sse" ELSE "stdio"

StartInit ==
    /\ ServerIdle /\ DispatchIdle /\ StdioIdle /\ CacheIdle /\ SmIdle
    /\ \E st \in Starts :
          /\ (st.version = "main.go") => (st.apiKey = "" /\ ~st.genKey)
          /\ fn = [pc |-> "ready", arg |-> st, ret |-> "none"]

\* The program runs up to the point where it serves or ends.
StartMain ==
    /\ fpc = "ready"
    /\ fn' = [fn EXCEPT !.ret = IF farg.version = "main.go" THEN mainGo(farg)
                                ELSE mainReadme(farg),
                        !.pc = "done"]
    /\ UNCHANGED <<serverVars, disp, stdio, cache, sm>>

\* The program is started again.
StartAgain(st) ==
    /\ fpc = "done"
    /\ (st.version = "main.go") => (st.apiKey = "" /\ ~st.genKey)
    /\ fn' = [pc |-> "ready", arg |-> st, ret |-> "none"]
    /\ UNCHANGED <<serverVars, disp, stdio, cache, sm>>

StartNext ==
    \/ StartMain
    \/ \E st \in Starts : StartAgain(st)

StartSpec == StartInit /\ [][StartNext]_vars

\* A start whose preconditions do not all hold.
PreconditionFails(st) ==
    \/ st.goos # "linux"
    \/ st.euid # 0
    \/ st.apiKey # "" /\ ~MatchesKeyPattern(st.apiKey)
    \/ st.dbDir # "" /\ ~st.initOK

\* C34: a start on a host that is not Linux, with an effective user id
\* other than 0, with a malformed API key or with a record store that
\* cannot be initialized never serves, on either transport.
C34_FatalAtStartup ==
    (fpc = "done" /\ PreconditionFails(farg)) => fret \notin {"sse", "stdio"}

-----------------------------------------------------------------------------
\* The exits of handleSSE, with the client's disconnect apart from the
\* handler's return: net/http cancels the request context when the
\* connection is gone, and the handler returns when its select takes the
\* Done case (main.go:183-184).

\* The client of s is gone: r.Context() is done, the handler is still in
\* its loop.
ClientGone(s) ==
    /\ ~panicked
    /\ spc[s] = "loop"
    /\ spc' = [spc EXCEPT ![s] = "gone"]
    /\ UNCHANGED <<sessions, MsgChan, closes, stream, workerVars, panicked, auxVars>>

\* Lines 175-182 with the client gone: the select may still take a response
\* from MsgChan; fmt.Fprintf fails, its error is not looked at, and the
\* frame reaches nobody.
SSEWriteLost(s) ==
    /\ ~panicked
    /\ spc[s] = "gone"
    /\ MsgChan[s] # <<>>
    /\ MsgChan' = [MsgChan EXCEPT ![s] = Tail(@)]
    /\ UNCHANGED <<sessions, spc, closes, stream, workerVars, panicked, auxVars>>

\* Lines 183-184 and 150-152: the select takes the Done case, the handler
\* returns and the deferred cleanup deletes the session under the lock.
SSEExit(s) ==
    /\ ~panicked
    /\ spc[s] = "gone"
    /\ sessions' = sessions \ {s}
    /\ spc' = [spc EXCEPT ![s] = "removed"]
    /\ UNCHANGED <<MsgChan, closes, stream, workerVars, panicked, auxVars>>

ExitNext ==
    \/ \E s \in SessionIds : SSEConnect(s)
    \/ \E s \in SessionIds : \E flusherOK \in BOOLEAN : SSEEndpoint(s, flusherOK)
    \/ \E s \in SessionIds : SSEWrite(s)
    \/ \E s \in SessionIds : ClientGone(s)
    \/ \E s \in SessionIds : SSEWriteLost(s)
    \/ \E s \in SessionIds : SSEExit(s)
    \/ \E s \in SessionIds : SSEClose(s)
    \/ \E w \in Slots : \E sid \in SessionIds :
         HandleMessages(w, "POST", sid, TRUE, QueueRequest(w))
    \/ \E w \in Slots : HandlerReturn(w, "ok")
    \/ \E w \in Slots : WorkerSend(w)

\* The handler's goroutine runs: a select whose Done case is ready takes it
\* in the end. Nothing is assumed of the clients or of the workers.
ExitFairSpec ==
    /\ Init
    /\ [][ExitNext]_vars
    /\ \A s \in SessionIds : WF_vars(SSEExit(s))

\* The sessions whose handleSSE is between registration and return.
HandlerRunning == {s \in SessionIds : spc[s] \in {"registered", "loop", "gone"}}

\* C39: the map holds exactly the sessions whose handler is running, and a
\* session whose client is gone is absent from the map in the end, unless
\* the process has ended in a panic and there is no map any more.
C39_MapIsRunningHandlers ==
    /\ [](sessions = HandlerRunning)
    /\ \A s \in SessionIds : (spc[s] = "gone") ~> (s \notin sessions \/ panicked)

\* Both exits were taken, through the loop by 1 and without a Flusher by 2,
\* and the map is empty.
C39_Witness ==
    /\ sessions = {}
    /\ spc[1] = "done" /\ stream[1] # <<>>
    /\ spc[2] = "removed" /\ stream[2] = <<>>

-----------------------------------------------------------------------------
\* ---- SessionManager and startSSEServer (README.md:846-975) ----
\* sm is a record: the server's API key, the map clients, the goroutines
\* holding the read lock, and for each connection its handler's position,
\* its channel, how often the channel was closed and whose responses were
\* written on its stream; for each POST the goroutine that handles it.

\* make(chan mcp.JSONRPCResponse, 5)
SessionChanCap == 5

\* Two connections, and a party that never opens a stream.
Clients == {1, 2}
Outsider == 0
\* The goroutines started by POSTs that are in flight together.
Producers == Slots

\* README.md:894-897
ssePath(apiKey) == IF apiKey = "" THEN "/sse" ELSE "/sse/" \o apiKey

smFrame == <<serverVars, disp, stdio, cache, fn>>

NoProducer == [pc |-> "idle", from |-> Outsider, held |-> FALSE, ran |-> FALSE,
               todo |-> {}, cur |-> Outsider]

SmInit ==
    /\ ServerIdle /\ DispatchIdle /\ StdioIdle /\ CacheIdle /\ FnIdle
    /\ \E key \in {"", GoodKey} :
         sm = [apiKey |-> key,
               clients |-> {},
               readers |-> {},
               hpc |-> [c \in Clients |-> "none"],
               path |-> [c \in Clients |-> ""],
               ch |-> [c \in Clients |-> <<>>],
               closed |-> [c \in Clients |-> 0],
               out |-> [c \in Clients |-> {}],
               prod |-> [p \in Producers |-> NoProducer],
               panicked |-> FALSE]

\* The handlers that have called sm.lock.Lock() and wait for it: while
\* there is one, RLock blocks (sync.RWMutex).
LockWanted(st) == {c \in Clients : st.hpc[c] \in {"add", "remove"}}

\* Add (README.md:859-864), between Lock and Unlock.
Add(st, c) == [st EXCEPT !.clients = @ \cup {c}]

\* Remove (README.md:866-874), between Lock and Unlock: a registered
\* channel is deleted and closed; close of a closed channel panics.
Remove(st, c) ==
    IF c \in st.clients
    THEN [st EXCEPT !.clients = @ \ {c},
                    !.closed[c] = @ + 1,
                    !.panicked = @ \/ st.closed[c] > 0]
    ELSE st

\* A GET: the mux knows ssePath only, any other path is answered 404
\* (README.md:899). The handler makes its channel and calls Add, which
\* calls Lock (README.md:906-908, 860).
SSEGet(c, path) ==
    /\ ~sm.panicked
    /\ sm.hpc[c] = "none"
    /\ \A d \in Clients : d < c => sm.hpc[d] # "none"
    /\ sm' = [sm EXCEPT !.path[c] = path,
                        !.hpc[c] = IF path = ssePath(sm.apiKey) THEN "add" ELSE "404"]
    /\ UNCHANGED smFrame

\* Add gets the lock when no reader holds it, registers the channel and
\* unlocks; the handler writes the endpoint event and enters its loop
\* (README.md:911-919).
SmAdd(c) ==
    /\ ~sm.panicked
    /\ sm.hpc[c] = "add"
    /\ sm.readers = {}
    /\ sm' = [Add(sm, c) EXCEPT !.hpc[c] = "stream"]
    /\ UNCHANGED smFrame

\* README.md:921-929: a response is received from msgCh and written.
StreamWrite(c) ==
    /\ ~sm.panicked
    /\ sm.hpc[c] = "stream"
    /\ sm.ch[c] # <<>>
    /\ sm' = [sm EXCEPT !.ch[c] = Tail(@), !.out[c] = @ \cup {Head(sm.ch[c])}]
    /\ UNCHANGED smFrame

\* README.md:926, 931, 935: a write fails or the request context is done;
\* the handler returns and the deferred Remove calls Lock (README.md:909).
StreamReturn(c) ==
    /\ ~sm.panicked
    /\ sm.hpc[c] = "stream"
    /\ sm' = [sm EXCEPT !.hpc[c] = "remove"]
    /\ UNCHANGED smFrame

\* Remove gets the lock when no reader holds it.
SmRemove(c) ==
    /\ ~sm.panicked
    /\ sm.hpc[c] = "remove"
    /\ sm.readers = {}
    /\ sm' = [Remove(sm, c) EXCEPT !.hpc[c] = "done"]
    /\ UNCHANGED smFrame

\* POST /message (README.md:940-968) by from: nothing of the sender is
\* looked at; the request is decoded, the goroutine is started and 202 is
\* answered. held notes whether the sender had a stream open at that time.
MessagePost(p, from) ==
    /\ ~sm.panicked
    /\ sm.prod[p].pc = "idle"
    /\ \A q \in Producers : q < p => sm.prod[q].pc # "idle"
    /\ sm' = [sm EXCEPT !.prod[p] =
                [NoProducer EXCEPT !.pc = "handle", !.from = from,
                                   !.held = from \in Clients /\ sm.hpc[from] = "stream"]]
    /\ UNCHANGED smFrame

\* README.md:957-963: server.HandleRequest runs the tool; the response is
\* not nil and Broadcast is called.
HandleRequestRun(p) ==
    /\ ~sm.panicked
    /\ sm.prod[p].pc = "handle"
    /\ sm' = [sm EXCEPT !.prod[p].ran = TRUE, !.prod[p].pc = "rlock"]
    /\ UNCHANGED smFrame

\* Mutant of BroadcastRLock: Broadcast ranges over the map without the
\* read lock.
BroadcastRLock_NotTaken(p) ==
    /\ ~sm.panicked
    /\ sm.prod[p].pc = "rlock"
    /\ sm' = [sm EXCEPT !.prod[p].todo = sm.clients,
                        !.prod[p].pc = "range"]
    /\ UNCHANGED smFrame

\* README.md:877: RLock is granted when no writer waits; the range is over
\* the map as it is then, which cannot change while the lock is held.
BroadcastRLock(p) ==
    /\ ~sm.panicked
    /\ sm.prod[p].pc = "rlock"
    /\ LockWanted(sm) = {}
    /\ sm' = [sm EXCEPT !.readers = @ \cup {p},
                        !.prod[p].todo = sm.clients,
                        !.prod[p].pc = "range"]
    /\ UNCHANGED smFrame

\* README.md:881: the next channel of the range, in any order.
BroadcastRange(p, c) ==
    /\ ~sm.panicked
    /\ sm.prod[p].pc = "range"
    /\ c \in sm.prod[p].todo
    /\ sm' = [sm EXCEPT !.prod[p].todo = @ \ {c},
                        !.prod[p].cur = c,
                        !.prod[p].pc = "select"]
    /\ UNCHANGED smFrame

\* README.md:883: the send; on a closed channel it panics.
BroadcastSend(p) ==
    /\ ~sm.panicked
    /\ sm.prod[p].pc = "select"
    /\ LET c == sm.prod[p].cur IN
       IF sm.closed[c] > 0
       THEN sm' = [sm EXCEPT !.panicked = TRUE]
       ELSE /\ Len(sm.ch[c]) < SessionChanCap
            /\ sm' = [sm EXCEPT !.ch[c] = Append(@, sm.prod[p].from),
                                !.prod[p].pc = "range"]
    /\ UNCHANGED smFrame

\* README.md:884-885: the channel stayed full for 100 ms, the response is
\* dropped for this client.
BroadcastDrop(p) ==
    /\ ~sm.panicked
    /\ sm.prod[p].pc = "select"
    /\ sm.closed[sm.prod[p].cur] = 0
    /\ Len(sm.ch[sm.prod[p].cur]) = SessionChanCap
    /\ sm' = [sm EXCEPT !.prod[p].pc = "range"]
    /\ UNCHANGED smFrame

\* README.md:878: the range is over, the deferred RUnlock runs.
BroadcastRUnlock(p) ==
    /\ ~sm.panicked
    /\ sm.prod[p].pc = "range"
    /\ sm.prod[p].todo = {}
    /\ sm' = [sm EXCEPT !.readers = @ \ {p}, !.prod[p].pc = "done"]
    /\ UNCHANGED smFrame

\* The goroutine of the POST has returned; the slot stands for the next.
ProducerExit(p) ==
    /\ ~sm.panicked
    /\ sm.prod[p].pc = "done"
    /\ sm' = [sm EXCEPT !.prod[p] = NoProducer]
    /\ UNCHANGED smFrame

\* Clients that hold the key, and POST after POST by the first of them.
SmPoster == 1
SmNext ==
    \/ \E c \in Clients : SSEGet(c, ssePath(sm.apiKey))
    \/ \E c \in Clients : SmAdd(c)
    \/ \E c \in Clients : StreamWrite(c)
    \/ \E c \in Clients : StreamReturn(c)
    \/ \E c \in Clients : SmRemove(c)
    \/ \E p \in Producers : MessagePost(p, SmPoster)
    \/ \E p \in Producers : HandleRequestRun(p)
    \/ \E p \in Producers : BroadcastRLock(p)
    \/ \E p \in Producers : \E c \in Clients : BroadcastRange(p, c)
    \/ \E p \in Producers : BroadcastSend(p)
    \/ \E p \in Producers : BroadcastDrop(p)
    \/ \E p \in Producers : BroadcastRUnlock(p)
    \/ \E p \in Producers : ProducerExit(p)

SmSpec == SmInit /\ [][SmNext]_vars

\* The producers that wait in the select of Broadcast for room on a full
\* channel, the read lock held.
WaitingToEnqueue ==
    {p \in Producers : /\ sm.prod[p].pc = "select"
                       /\ p \in sm.readers
                       /\ Len(sm.ch[sm.prod[p].cur]) = SessionChanCap}

\* C35: no handler waits for the session manager's lock to register or
\* remove its session while a producer that holds the lock waits to enqueue
\* on a full channel.
C35_NoLockAcrossWait ==
    WaitingToEnqueue # {} => LockWanted(sm) = {}

\* C38: no channel is closed twice and nothing is sent on a closed channel
\* (either would panic); a closed channel is not registered, a second
\* Remove changes nothing, and the channel Broadcast is sending to is
\* registered and open.
C38_CloseOnceSendOpen ==
    /\ ~sm.panicked
    /\ \A c \in Clients :
         /\ sm.closed[c] <= 1
         /\ sm.closed[c] = 1 => c \notin sm.clients
         /\ Remove(Remove(sm, c), c) = Remove(sm, c)
    /\ \A p \in Producers :
         sm.prod[p].pc = "select" =>
            /\ sm.prod[p].cur \in sm.clients
            /\ sm.closed[sm.prod[p].cur] = 0

\* A Broadcast is in its select for a channel whose handler has returned
\* and waits in Remove, and another channel has been removed and closed.
C38_Witness ==
    \E p \in Producers : \E d \in Clients :
       /\ sm.prod[p].pc = "select"
       /\ sm.hpc[sm.prod[p].cur] = "remove"
       /\ sm.closed[d] = 1 /\ sm.hpc[d] = "done"

\* The server with GETs on either path and a POST by anyone.
AuthNext ==
    \/ \E c \in Clients : \E path \in {"/sse", ssePath(sm.apiKey)} : SSEGet(c, path)
    \/ \E c \in Clients : SmAdd(c)
    \/ \E c \in Clients : StreamWrite(c)
    \/ \E c \in Clients : StreamReturn(c)
    \/ \E c \in Clients : SmRemove(c)
    \/ \E p \in Producers : \E from \in {Outsider} \cup Clients : MessagePost(p, from)
    \/ \E p \in Producers : HandleRequestRun(p)
    \/ \E p \in Producers : BroadcastRLock(p)
    \/ \E p \in Producers : \E c \in Clients : BroadcastRange(p, c)
    \/ \E p \in Producers : BroadcastSend(p)
    \/ \E p \in Producers : BroadcastRUnlock(p)

AuthSpec == SmInit /\ [][AuthNext]_vars

\* The parties that have opened the stream on ssePath.
OpenedStream == {c \in Clients : sm.hpc[c] \notin {"none", "404"}}

\* C40: with an API key configured, a GET of /sse opens no stream, a tool
\* runs only for a POST whose sender held an open stream, and every
\* response written on a stream answers a POST of a party that opened the
\* keyed stream.
C40_OnlyStreamHolders ==
    sm.apiKey # "" =>
        /\ \A c \in Clients : sm.path[c] = "/sse" => sm.hpc[c] = "404"
        /\ \A p \in Producers : sm.prod[p].ran => sm.prod[p].held
        /\ \A c \in Clients : sm.out[c] \subseteq OpenedStream

====
